---- MODULE Spec2Model ----
(***************************************************************************)
(* Model of the claude-task-manager scheduler: the task registry           *)
(* (manager/dispatcher.py), the container pool (manager/container_pool.py),*)
(* the task lifecycle and dispatcher loop (manager/task_scheduler.py), and *)
(* the API handlers that change task or slot state (manager/app.py).       *)
(*                                                                         *)
(* Identifiers are small integers: tasks 1..MaxTasks, worker slots         *)
(* 1..NumWorkers, projects 1..NumProjects; 0 stands for Python's None      *)
(* where an id is optional, and Null for None in string fields.            *)
(*                                                                         *)
(* Granularity: the manager is one asyncio event loop.  Code between two   *)
(* awaits runs without interleaving with other coroutines of the loop, so  *)
(* each action below is one such block.  Work sent to the executor (git,   *)
(* container wait) spans two blocks: the lifecycle's pc names the call in  *)
(* progress and the action that resumes the coroutine applies its effect.  *)
(* Other processes (the claim_task.py CLI, worker containers) interleave   *)
(* with the loop at the granularity of the registry's file locks.          *)
(***************************************************************************)
EXTENDS Integers, FiniteSets, Sequences, TLC

\* ------------------------------------------------------------------ bounds
MaxTasks == 2
NumWorkers == 2
NumProjects == 1
MaxLife == 3
MaxCalls == 1
MaxClaimCalls == 4
MaxScan == 3
MaxPriority == 1
MaxStamp == 2
MaxStarts == 2
MaxOps == 3
MaxEmits == 202
MaxLimit == 3
MaxLines == 3

\* deque(maxlen=200) of event_log.py.
maxlen == 200

TaskIds == 1..MaxTasks
Slots == 1..NumWorkers
Projects == 1..NumProjects
LifeIds == 1..MaxLife
OpIds == 1..MaxOps

Null == "null"

\* Fixed attributes of the tasks the model creates (TaskCreate inputs).
\* Tasks 1 and 2 live in project 1, the others in the last project.
ProjectOf(t) == IF t <= 2 THEN 1 ELSE NumProjects
\* Task 2 depends on task 1 and has the higher priority.
DependsOn(t) == IF t = 2 THEN 1 ELSE 0
Priority(t) == IF t = 2 THEN 10 ELSE 0
\* Project 1 merges automatically, the others wait for a manual merge.
AutoMerge(p) == p = 1

\* ------------------------------------------------------------------ enums
TaskStatus ==
    {"pending", "claimed", "running", "plan_pending", "plan_approved",
     "merging", "testing", "merge_pending", "completed", "failed", "cancelled"}

ActiveStatuses == {"claimed", "running", "merging", "testing"}
TerminalStatuses == {"completed", "failed", "cancelled"}

\* Statuses a worker reports through the callback (the container contract).
CallbackStatuses == {"running", "merging", "failed"}

VARIABLES
    registry,    \* project id -> "ready" | "absent"   (projects.json)
    queue,       \* task id -> Task record             (tasks.json of its project)
    slots,       \* slot id -> WorkerState             (ContainerPool._workers)
    containers,  \* set of <<slot, task>>: worker containers that are running
    life,        \* lifecycle id -> _handle_task coroutine state
    gitlock,     \* project id -> holder of _project_git_locks[p] (0 = free)
    wt,          \* <<project, slot>> -> task whose worktree is at worktrees/<slot>
    branch,      \* task id -> state of branch claude/<task id>: "none", or
                 \* where it stands: "base" (no commit beyond <base>),
                 \* "upstream" (at an origin/<base> that is ahead of
                 \* <base>), "detached" (at HEAD, no <base> ref exists),
                 \* "ahead" and "detached ahead" (the agent committed)
    merged,      \* tasks whose branch has been merged into the base branch
    claim,       \* claimer -> progress of its claim_next call
    planGen,     \* <<task, kind>>: plan coroutines in flight (generate or chat),
                 \* and a create_task handler between its two registry writes
    calls,       \* requests received so far (bounds a behaviour)
    candidates,  \* claim_next.all_candidates of one call, in scan order
    first,       \* all_candidates[0] of that call after the sort
    response,    \* status code of the last answer of the task API (0: none)
    qops,        \* process -> its call on the queue file, how far it is in
                 \* it, and the queue it read
    events,      \* event_log._events: the records held, oldest first
    mergeReq,    \* project id -> the task a merge_task handler is merging (0 = none)
    logfile,     \* a .jsonl log file: whether it exists and the pieces written to it
    reader,      \* a websocket handler that replays and tails the log
    ops          \* registry operation -> the file-lock steps it has left and
                 \* the file locks it holds

vars == <<registry, queue, slots, containers, life, gitlock, wt, branch,
          merged, claim, planGen, calls, candidates, first, response, ops, qops,
          events, mergeReq, logfile, reader>>

\* ------------------------------------------------------------------ records
\* models.Task; exists is "no" before add_task, "yes" while in the queue,
\* "deleted" after delete_task (ids are never reused) and "lost" when the
\* queue file no longer parses.
NoTask ==
    [exists |-> "no", status |-> "pending", worker_id |-> 0, error |-> Null,
     completed_at |-> FALSE, started_at |-> FALSE, commit_id |-> Null,
     branch |-> Null, plan_mode |-> FALSE]

NewTask ==
    [exists |-> "yes", status |-> "pending", worker_id |-> 0, error |-> Null,
     completed_at |-> FALSE, started_at |-> FALSE, commit_id |-> Null,
     branch |-> Null, plan_mode |-> FALSE]

InQueue(q, t) == q[t].exists = "yes"

\* TaskCreate.plan_mode as add_task stored it.
PlanMode(q, t) == q[t].plan_mode

IdleSlot == [status |-> "idle", cid |-> <<>>, task |-> 0]

FreeLife == [pc |-> "free", worker |-> 0, task |-> 0]

IdleClaim == [pc |-> "idle", worker |-> 0, best |-> 0, status |-> Null]

IdleOp == [prog |-> <<>>, holds |-> {}]

NoQueueCall == [kind |-> "none", task |-> 0, status |-> Null]

IdleQueueOp == [pc |-> "idle", call |-> NoQueueCall, seen |-> <<>>]

\* A log file that no writer has opened yet.
NoLog == [exists |-> FALSE, text |-> <<>>]

\* A websocket handler after websocket.accept(): pos is the offset of its
\* tail_log file object, start the offset tail_log's seek put it at,
\* existing what parse_log_file returned, yielded what tail_log yielded.
NewReader ==
    [pc |-> "accepted", pos |-> 0, start |-> 0, existing |-> <<>>,
     yielded |-> <<>>]

\* ------------------------------------------------------------------ registry
\* An update that stores every argument, the absent ones (Null) too.
update_task_status_overwriting(q, t, status, error, commit_id, br) ==
    IF ~InQueue(q, t) THEN q
    ELSE [q EXCEPT ![t] =
            [@ EXCEPT !.status = status,
                      !.error = error,
                      !.commit_id = commit_id,
                      !.branch = br,
                      !.completed_at = IF status = "completed" THEN TRUE ELSE @]]

\* dispatcher.update_task_status: partial update, None (Null) leaves a field.
update_task_status(q, t, status, error, commit_id, br) ==
    IF ~InQueue(q, t) THEN q
    ELSE [q EXCEPT ![t] =
            [@ EXCEPT !.status = status,
                      !.error = IF error # Null THEN error ELSE @,
                      !.commit_id = IF commit_id # Null THEN commit_id ELSE @,
                      !.branch = IF br # Null THEN br ELSE @,
                      !.completed_at = IF status = "completed" THEN TRUE ELSE @]]

\* Task.error holds free text; the model keeps only that a message was
\* written, not which one.
ErrorText(message) == "error text"

SetStatus(q, t, status) == update_task_status(q, t, status, Null, Null, Null)
SetFailed(q, t, error) == update_task_status(q, t, "failed", error, Null, Null)

\* dispatcher.claim_next, snapshot phase: the tasks of one project a scan
\* collects.  depends_on is looked up among the completed tasks of the same
\* queue file; a task's depends_on never changes after creation.
completed_ids(q, p) ==
    {t \in TaskIds : InQueue(q, t) /\ ProjectOf(t) = p /\ q[t].status = "completed"}

Claimable(q, t) ==
    /\ InQueue(q, t)
    /\ q[t].status \in {"plan_approved", "pending"}
    /\ DependsOn(t) = 0 \/ DependsOn(t) \in completed_ids(q, ProjectOf(t))

\* A scan that takes the tasks of every registered project.
all_candidates_of_every_project(reg, q) ==
    {t \in TaskIds : reg[ProjectOf(t)] # "absent" /\ Claimable(q, t)}

all_candidates(reg, q) ==
    {t \in TaskIds : reg[ProjectOf(t)] = "ready" /\ Claimable(q, t)}

\* A sort key that orders the priorities upwards.
sort_key_priority_ascending(item) ==
    <<IF item.status = "plan_approved" THEN 0 ELSE 1, item.priority,
      item.created_at>>

\* claim_next.sort_key of a candidate: (status tier, -priority, created_at).
\* created_at is the isoformat text of a UTC time; texts of that one format
\* compare like the times, which the model numbers.
sort_key(item) ==
    <<IF item.status = "plan_approved" THEN 0 ELSE 1, 0 - item.priority,
      item.created_at>>

\* Python's order on the key tuples.
KeyLess(a, b) ==
    \/ a[1] < b[1]
    \/ a[1] = b[1] /\ a[2] < b[2]
    \/ a[1] = b[1] /\ a[2] = b[2] /\ a[3] < b[3]

\* all_candidates.sort(key=sort_key) on a list: list.sort is stable, which
\* is what inserting the elements in list order, each behind the elements
\* whose key is not greater, computes.
RECURSIVE Inserted(_, _)
Inserted(sorted, item) ==
    IF sorted = <<>> THEN <<item>>
    ELSE IF KeyLess(sort_key(item), sort_key(sorted[Len(sorted)]))
         THEN Append(Inserted(SubSeq(sorted, 1, Len(sorted) - 1), item),
                     sorted[Len(sorted)])
         ELSE Append(sorted, item)

RECURSIVE Sorted(_)
Sorted(list) ==
    IF list = <<>> THEN <<>>
    ELSE Inserted(Sorted(SubSeq(list, 1, Len(list) - 1)), list[Len(list)])

\* The candidate entry of task t of the queue; created_at is ordered like
\* the task ids (see CreateTask).
Candidate(q, t) ==
    [id |-> t, project |-> ProjectOf(t), status |-> q[t].status,
     priority |-> Priority(t), created_at |-> t]

\* The order in which the scan appends the candidates: the registry order
\* of the projects and then the order of the queue file.
ScannedBefore(t, u) ==
    \/ ProjectOf(t) < ProjectOf(u)
    \/ ProjectOf(t) = ProjectOf(u) /\ t < u

Scanned(q, cands) ==
    [i \in 1..Cardinality(cands) |->
        Candidate(q, CHOOSE t \in cands :
                        Cardinality({u \in cands : ScannedBefore(u, t)}) = i - 1)]

\* all_candidates[0] after the sort.
best_task(q, cands) == Sorted(Scanned(q, cands))[1].id

\* A re-verification that only looks the task up, without comparing its
\* status with the one seen in the snapshot.
StillInQueue(q, c) == InQueue(q, c.best)

\* claim_next, second phase: the re-verification under the project's lock.
StillAsSeen(q, c) ==
    /\ InQueue(q, c.best)
    /\ q[c.best].status = c.status

\* The write of the second phase.
Claimed(q, t, w) ==
    [q EXCEPT ![t] = [@ EXCEPT !.status = "claimed", !.worker_id = w,
                               !.started_at = TRUE]]

\* ------------------------------------------------------------------ pool
\* ContainerPool.mark_idle (the tasks_completed counter is not modelled).
mark_idle(s, w) == [s EXCEPT ![w] = IdleSlot]

\* ContainerPool.get_idle_worker: the first idle slot in worker-1..worker-N
\* order, 0 for None.
get_idle_worker(s) ==
    IF \E w \in Slots : s[w].status = "idle"
    THEN CHOOSE w \in Slots :
            /\ s[w].status = "idle"
            /\ \A v \in Slots : s[v].status = "idle" => w <= v
    ELSE 0

\* ContainerPool._refresh_state: a slot whose container is gone is idled.
refresh_state(s, cs, w) ==
    IF s[w].cid = <<>> THEN s
    ELSE IF s[w].cid \notin cs THEN mark_idle(s, w) ELSE s

\* ContainerPool.get_all: refresh every slot.
get_all(s, cs) ==
    [w \in Slots |-> refresh_state(s, cs, w)[w]]

\* ContainerPool.update_from_tasks over the task set ts: the last active task
\* of the list that names the slot wins (lists are in id order).
ActiveOn(q, ts, w) ==
    {t \in ts : InQueue(q, t) /\ q[t].worker_id = w /\ q[t].status \in ActiveStatuses}

MaxOf(S) == CHOOSE x \in S : \A y \in S : y <= x

update_from_tasks(s, q, ts) ==
    [w \in Slots |->
        IF s[w].status = "stopped" THEN s[w]
        ELSE IF ActiveOn(q, ts, w) # {}
             THEN [s[w] EXCEPT !.status = "busy", !.task = MaxOf(ActiveOn(q, ts, w))]
        ELSE IF s[w].status = "busy" /\ s[w].cid = <<>>
             THEN [s[w] EXCEPT !.status = "idle", !.task = 0]
        ELSE s[w]]

\* The manager after start-up, with the tasks earlier runs left pending.
Started ==
    /\ registry = [p \in Projects |-> "ready"]
    /\ \E k \in 0..MaxTasks :
          queue = [t \in TaskIds |-> IF t <= k THEN NewTask ELSE NoTask]
    /\ slots = [w \in Slots |-> IdleSlot]
    /\ containers = {}
    /\ life = [l \in LifeIds |-> FreeLife]
    /\ gitlock = [p \in Projects |-> 0]
    /\ wt = [k \in Projects \X Slots |-> 0]
    /\ branch = [t \in TaskIds |-> "none"]
    /\ merged = {}
    /\ claim = [c \in {"disp", "cli"} |-> IdleClaim]
    /\ planGen = {}
    /\ calls = 0

Init ==
    /\ Started
    /\ candidates = <<>>
    /\ first = <<>>
    /\ response = 0
    /\ ops = [o \in OpIds |-> IdleOp]
    /\ reader = NewReader
    /\ logfile = NoLog
    /\ mergeReq = [p \in Projects |-> 0]
    /\ events = <<>>
    /\ qops = [o \in OpIds |-> IdleQueueOp]

\* ------------------------------------------------------------------ helpers
\* The manager's event loop is free when the dispatcher loop is not inside
\* its (synchronous) claim_next call; handlers and coroutines run only then.
LoopFree ==
    /\ claim["disp"].pc = "idle"
    /\ \A t \in TaskIds : <<t, "create">> \notin planGen

\* worker_id argument of the claim_task.py CLI: a worker outside the pool.
CliWorker == NumWorkers + 1

FreeLifeIds == {l \in LifeIds : life[l].pc = "free"}
MinOf(S) == CHOOSE x \in S : \A y \in S : x <= y

\* _cleanup_worktree: the worktree at worktrees/<w> is removed whoever made
\* it; git branch -D refuses a branch still checked out in another worktree.
WtRemoved(f, p, w) == [f EXCEPT ![<<p, w>>] = 0]

BranchDeleted(b, f, t) ==
    IF \E k \in DOMAIN f : f[k] = t THEN b ELSE [b EXCEPT ![t] = "none"]

\* ------------------------------------------------------------------ claim_next
\* task_dispatcher_loop up to the first phase of claim_next: an idle slot is
\* picked and the ready projects are scanned.  With no candidate claim_next
\* returns None and nothing changes.
DispSnapshot ==
    /\ LoopFree
    /\ get_idle_worker(slots) # 0
    /\ FreeLifeIds # {}
    /\ all_candidates(registry, queue) # {}
    /\ LET b == best_task(queue, all_candidates(registry, queue))
       IN claim' = [claim EXCEPT !["disp"] =
                      [pc |-> "verify", worker |-> get_idle_worker(slots),
                       best |-> b, status |-> queue[b].status]]
    /\ UNCHANGED <<registry, queue, slots, containers, life, gitlock, wt,
                   branch, merged, planGen>>

\* Second phase of claim_next in the dispatcher loop, and on success the
\* spawn of _handle_task (asyncio.create_task in the same block).
DispCommit ==
    /\ claim["disp"].pc = "verify"
    /\ LET c == claim["disp"]
       IN IF StillAsSeen(queue, c)
          THEN /\ queue' = Claimed(queue, c.best, c.worker)
               /\ life' = [life EXCEPT ![MinOf(FreeLifeIds)] =
                             [pc |-> "start", worker |-> c.worker, task |-> c.best]]
          ELSE UNCHANGED <<queue, life>>
    /\ claim' = [claim EXCEPT !["disp"] = IdleClaim]
    /\ UNCHANGED <<registry, slots, containers, gitlock, wt, branch, merged,
                   planGen>>

\* claim_task.py claim <worker_id>, first phase, in another process.
CliSnapshot ==
    /\ claim["cli"].pc = "idle"
    /\ all_candidates(registry, queue) # {}
    /\ LET b == best_task(queue, all_candidates(registry, queue))
       IN claim' = [claim EXCEPT !["cli"] =
                      [pc |-> "verify", worker |-> CliWorker,
                       best |-> b, status |-> queue[b].status]]
    /\ UNCHANGED <<registry, queue, slots, containers, life, gitlock, wt,
                   branch, merged, planGen>>

\* A second phase that, when the re-verification fails, goes on to the best
\* of the tasks that are candidates now.
CliCommitFallingBack ==
    /\ claim["cli"].pc = "verify"
    /\ LET c == claim["cli"]
       IN IF StillAsSeen(queue, c)
          THEN queue' = Claimed(queue, c.best, c.worker)
          ELSE IF all_candidates(registry, queue) # {}
          THEN queue' = Claimed(queue,
                            best_task(queue, all_candidates(registry, queue)),
                            c.worker)
          ELSE UNCHANGED queue
    /\ claim' = [claim EXCEPT !["cli"] = IdleClaim]
    /\ UNCHANGED <<registry, slots, containers, life, gitlock, wt, branch,
                   merged, planGen>>

\* claim_task.py claim, second phase.
CliCommit ==
    /\ claim["cli"].pc = "verify"
    /\ LET c == claim["cli"]
       IN IF StillAsSeen(queue, c)
          THEN queue' = Claimed(queue, c.best, c.worker)
          ELSE UNCHANGED queue
    /\ claim' = [claim EXCEPT !["cli"] = IdleClaim]
    /\ UNCHANGED <<registry, slots, containers, life, gitlock, wt, branch,
                   merged, planGen>>

\* ------------------------------------------------------------------ task API
\* app.create_task, first registry write: add_task appends the task with
\* status pending.  For a plan-mode task the handler goes on to a second
\* write; both are synchronous, so nothing else runs on the event loop in
\* between, but other processes can take the queue's file lock.
\* Tasks are created in id order, so created_at is ordered like the ids.
CreateTask(t, plan_mode) ==
    /\ queue[t].exists = "no"
    /\ \A u \in TaskIds : u < t => queue[u].exists # "no"
    /\ plan_mode => planGen = {}
    /\ queue' = [queue EXCEPT ![t] = [NewTask EXCEPT !.plan_mode = plan_mode]]
    /\ planGen' = IF plan_mode THEN planGen \cup {<<t, "create">>} ELSE planGen
    /\ UNCHANGED <<registry, slots, containers, life, gitlock, wt, branch,
                   merged, claim>>

\* app.create_task, second write for a plan-mode task: the switch to
\* plan_pending, and the spawn of plan generation.
CreateTaskPlanPending(t) ==
    /\ <<t, "create">> \in planGen
    /\ queue' = SetStatus(queue, t, "plan_pending")
    /\ planGen' = (planGen \ {<<t, "create">>}) \cup {<<t, "generate">>}
    /\ UNCHANGED <<registry, slots, containers, life, gitlock, wt, branch,
                   merged, claim>>

\* app.delete_task -> dispatcher.delete_task.
DeleteTask(t) ==
    /\ InQueue(queue, t)
    /\ queue' = [queue EXCEPT ![t] = [@ EXCEPT !.exists = "deleted"]]
    /\ UNCHANGED <<registry, slots, containers, life, gitlock, wt, branch,
                   merged, claim, planGen>>

\* ContainerPool.stop_worker as cancel_task uses it: the first slot (after
\* get_all's refresh) whose current task is t is stopped and idled.
HoldersOf(s, t) == {w \in Slots : s[w].task = t}

\* app.cancel_task: the statuses it cancels, and one set more.
cancellable_direct_and_unmerged ==
    {"pending", "plan_pending", "plan_approved", "failed", "merge_pending"}

cancellable_direct == {"pending", "plan_pending", "plan_approved", "failed"}

cancellable_running == {"claimed", "running", "merging", "testing"}

\* app.cancel_task; any other status is answered 400 with nothing written.
CancelTask(t) ==
    /\ InQueue(queue, t)
    /\ IF queue[t].status \in cancellable_running
       THEN /\ LET s1 == get_all(slots, containers)
               IN IF HoldersOf(s1, t) # {}
                  THEN LET w == MinOf(HoldersOf(s1, t))
                       IN IF s1[w].cid # <<>>
                          THEN /\ containers' = containers \ {s1[w].cid}
                               /\ slots' = mark_idle(s1, w)
                          ELSE /\ slots' = s1
                               /\ UNCHANGED containers
                  ELSE /\ slots' = s1
                       /\ UNCHANGED containers
            /\ queue' = SetStatus(queue, t, "cancelled")
            /\ response' = 200
       ELSE IF queue[t].status \in cancellable_direct
       THEN /\ queue' = SetStatus(queue, t, "cancelled")
            /\ response' = 200
            /\ UNCHANGED <<slots, containers>>
       ELSE /\ response' = 400
            /\ UNCHANGED <<queue, slots, containers>>
    /\ UNCHANGED <<registry, life, gitlock, wt, branch, merged, claim, planGen>>

\* app.retry_task: the statuses it retries, and the set without plan_pending.
retryable_when_terminal == {"failed", "cancelled", "completed"}

retryable == {"failed", "cancelled", "completed", "plan_pending"}

\* app.retry_task; any other status is answered 400 with nothing written.
RetryTask(t) ==
    /\ InQueue(queue, t)
    /\ IF queue[t].status \notin retryable
       THEN /\ response' = 400
            /\ UNCHANGED <<queue, planGen>>
       ELSE /\ PlanMode(queue, t) => planGen = {}
            /\ queue' = update_task_status(queue, t,
                            IF PlanMode(queue, t) THEN "plan_pending" ELSE "pending",
                            "", Null, Null)
            /\ planGen' = IF PlanMode(queue, t)
                          THEN planGen \cup {<<t, "generate">>} ELSE planGen
            /\ response' = 200
    /\ UNCHANGED <<registry, slots, containers, life, gitlock, wt, branch,
                   merged, claim>>

\* app.internal_update_status (POST by a worker container) and
\* claim_task.py update (a worker process): a failed report carries the
\* error, a merging report the branch name.
UpdateStatus(t, status) ==
    /\ InQueue(queue, t)
    /\ queue' = update_task_status(queue, t, status,
                    IF status = "failed" THEN ErrorText("agent error") ELSE Null,
                    Null,
                    IF status = "merging" THEN "claude/task" ELSE Null)
    /\ UNCHANGED <<registry, slots, containers, life, gitlock, wt, branch,
                   merged, claim, planGen>>

\* The values a callback body can carry: a status string that is a member
\* of the enum or not, and each of branch, commit and error given or absent.
BodyStatuses == TaskStatus \cup {"no such status"}
BodyBranches == {Null, "claude/task"}
BodyCommits == {Null, "sha"}
BodyErrors == {Null, ErrorText("agent error")}

\* app.internal_update_status: 400 for a status outside the enum, else
\* update_task_status with the body's fields, 404 when it returns None.
internal_update_status(t, status, br, commit, error) ==
    /\ IF status \notin TaskStatus
       THEN /\ response' = 400
            /\ UNCHANGED queue
       ELSE /\ queue' = update_task_status(queue, t, status, error, commit, br)
            /\ response' = IF InQueue(queue, t) THEN 200 ELSE 404
    /\ UNCHANGED <<registry, slots, containers, life, gitlock, wt, branch,
                   merged, claim, planGen>>

\* app.list_tasks(project): update_from_tasks over that project's queue.
ListTasks(p) ==
    /\ slots' = update_from_tasks(slots, queue, {t \in TaskIds : ProjectOf(t) = p})
    /\ slots' # slots
    /\ UNCHANGED <<registry, queue, containers, life, gitlock, wt, branch,
                   merged, claim, planGen>>

\* app.list_workers: update_from_tasks over the queues of all registered
\* projects, then get_all's refresh.
ListWorkers ==
    /\ slots' = get_all(update_from_tasks(slots, queue,
                    {t \in TaskIds : registry[ProjectOf(t)] # "absent"}), containers)
    /\ slots' # slots
    /\ UNCHANGED <<registry, queue, containers, life, gitlock, wt, branch,
                   merged, claim, planGen>>

\* app.restart_worker in container mode -> stop_worker.
RestartWorker(w) ==
    /\ slots[w].cid # <<>>
    /\ containers' = containers \ {slots[w].cid}
    /\ slots' = mark_idle(slots, w)
    /\ UNCHANGED <<registry, queue, life, gitlock, wt, branch, merged, claim,
                   planGen>>

\* app.remove_project -> dispatcher.delete_project (the queue file stays).
DeleteProject(p) ==
    /\ registry[p] # "absent"
    /\ registry' = [registry EXCEPT ![p] = "absent"]
    /\ UNCHANGED <<queue, slots, containers, life, gitlock, wt, branch,
                   merged, claim, planGen>>

\* ------------------------------------------------------------------ project API
\* models.ProjectStatus; "absent" is a project id with no registry entry.
ProjectStatus == {"cloning", "ready", "error"}

\* dispatcher.update_project_status: None for an id the registry lacks.
update_project_status(reg, p, status) ==
    IF reg[p] = "absent" THEN reg ELSE [reg EXCEPT ![p] = status]

\* app._clone_project_async returning for a project it was spawned for by
\* create_project or retry_project: ready, or error (clone failed, timed
\* out, local path is no repository).
CloneFinished(p, ok) ==
    /\ registry[p] = "cloning"
    /\ registry' = update_project_status(registry, p,
                        IF ok THEN "ready" ELSE "error")
    /\ UNCHANGED <<queue, slots, containers, life, gitlock, wt, branch, merged,
                   claim, planGen>>

\* app.retry_project: 400 unless the project is in error; cloning again.
RetryProject(p) ==
    /\ registry[p] = "error"
    /\ registry' = update_project_status(registry, p, "cloning")
    /\ UNCHANGED <<queue, slots, containers, life, gitlock, wt, branch, merged,
                   claim, planGen>>

\* ------------------------------------------------------------------ plan mode
\* app.generate_plan: spawns plan generation for any task of the queue.
GeneratePlan(t) ==
    /\ InQueue(queue, t)
    /\ planGen = {}
    /\ planGen' = {<<t, "generate">>}
    /\ UNCHANGED <<registry, queue, slots, containers, life, gitlock, wt,
                   branch, merged, claim>>

\* app._generate_plan_async returning: plan_pending with the plan, or failed
\* (non-zero exit, timeout, exception).
PlanGenerated(t, ok) ==
    /\ <<t, "generate">> \in planGen
    /\ planGen' = planGen \ {<<t, "generate">>}
    /\ queue' = IF ok
                THEN SetStatus(queue, t, "plan_pending")
                ELSE SetFailed(queue, t, ErrorText("Plan generation failed"))
    /\ UNCHANGED <<registry, slots, containers, life, gitlock, wt, branch,
                   merged, claim>>

\* app.approve_plan: approve -> plan_approved, reject -> pending.
ApprovePlan(t, approved) ==
    /\ InQueue(queue, t)
    /\ queue' = SetStatus(queue, t, IF approved THEN "plan_approved" ELSE "pending")
    /\ UNCHANGED <<registry, slots, containers, life, gitlock, wt, branch,
                   merged, claim, planGen>>

\* app.plan_chat: the user message is saved with status plan_pending and
\* _run_plan_chat is spawned.
PlanChat(t) ==
    /\ InQueue(queue, t)
    /\ planGen = {}
    /\ queue' = SetStatus(queue, t, "plan_pending")
    /\ planGen' = {<<t, "chat">>}
    /\ UNCHANGED <<registry, slots, containers, life, gitlock, wt, branch,
                   merged, claim>>

\* app._run_plan_chat returning: plan_pending again, with the error on an
\* exception.
PlanChatDone(t, ok) ==
    /\ <<t, "chat">> \in planGen
    /\ planGen' = planGen \ {<<t, "chat">>}
    /\ queue' = update_task_status(queue, t, "plan_pending",
                    IF ok THEN Null ELSE ErrorText("Plan chat error"), Null, Null)
    /\ UNCHANGED <<registry, slots, containers, life, gitlock, wt, branch,
                   merged, claim>>

\* ------------------------------------------------------------------ manual merge
\* app.merge_task, under the project's git lock: the merge of a
\* merge_pending task's branch into the base branch; a failed checkout or
\* merge answers 500 and changes nothing.
MergeTask(t) ==
    /\ InQueue(queue, t)
    /\ queue[t].status = "merge_pending"
    /\ queue[t].branch # Null
    /\ gitlock[ProjectOf(t)] = 0
    /\ branch[t] # "none"
    /\ merged' = merged \cup {t}
    /\ branch' = BranchDeleted(branch, wt, t)
    /\ queue' = update_task_status(queue, t, "completed", Null, "merged", Null)
    /\ UNCHANGED <<registry, slots, containers, life, gitlock, wt, claim, planGen>>

\* app.merge_task in the steps its awaits cut it into.  The handler holds
\* the project's git lock from its checks to its answer, and other handlers
\* run while it awaits its git subprocesses.
MergeHolder == MaxLife + 1

NotMerge == <<registry, slots, containers, life, wt, claim, planGen, calls,
              candidates, first, ops, qops, events, logfile, reader>>

\* merge_task up to its first await: 404 for a task the queue lacks, 400 for
\* a task that is not merge_pending or has no branch, else git fetch starts.
MergeRequested(t) ==
    /\ gitlock[ProjectOf(t)] = 0
    /\ IF ~InQueue(queue, t)
       THEN response' = 404 /\ UNCHANGED <<gitlock, mergeReq, logfile, reader>>
       ELSE IF queue[t].status # "merge_pending" \/ queue[t].branch = Null
       THEN response' = 400 /\ UNCHANGED <<gitlock, mergeReq, logfile, reader>>
       ELSE /\ gitlock' = [gitlock EXCEPT ![ProjectOf(t)] = MergeHolder]
            /\ mergeReq' = [mergeReq EXCEPT ![ProjectOf(t)] = t]
            /\ UNCHANGED response
    /\ UNCHANGED <<queue, branch, merged>>
    /\ UNCHANGED NotMerge

\* merge_task from its first await to its answer: fetch, checkout, merge (or
\* squash and commit), rev-parse, branch -D, update_task_status(COMPLETED);
\* a failed checkout, merge or commit answers 500 with nothing written.
MergeAnswered(p, ok) ==
    /\ mergeReq[p] # 0
    /\ ok => branch[mergeReq[p]] # "none"
    /\ LET t == mergeReq[p]
       IN IF ok
          THEN /\ merged' = merged \cup {t}
               /\ branch' = BranchDeleted(branch, wt, t)
               /\ queue' = update_task_status(queue, t, "completed", Null,
                               "merged", Null)
               /\ response' = 200
          ELSE /\ response' = 500
               /\ UNCHANGED <<merged, branch, queue>>
    /\ gitlock' = [gitlock EXCEPT ![p] = 0]
    /\ mergeReq' = [mergeReq EXCEPT ![p] = 0]
    /\ UNCHANGED NotMerge

\* ------------------------------------------------------------------ lifecycle
\* task_scheduler._handle_task, one action per block between awaits.  A
\* lifecycle's pc names the executor call it is waiting for.
Proj(l) == ProjectOf(life[l].task)

\* pcs at which a git subprocess against the project's repo is running.
GitPcs ==
    {"create_worktree", "cleanup_fail", "cleanup_locked", "merge_and_test",
     "auto_merge", "cleanup_completed", "cleanup_keep"}

\* The end of the coroutine: its record is free again, and an async with
\* block it was in releases the git lock.
Ended(l) == [life EXCEPT ![l] = FreeLife]
Released(l) == [gitlock EXCEPT ![Proj(l)] = IF @ = l THEN 0 ELSE @]

\* Start of the coroutine up to the await of _create_worktree.
LifeStart(l) ==
    /\ life[l].pc = "start"
    /\ IF registry[Proj(l)] = "absent"
       THEN /\ queue' = SetFailed(queue, life[l].task, ErrorText("project not found"))
            /\ slots' = mark_idle(slots, life[l].worker)
            /\ life' = Ended(l)
       ELSE /\ life' = [life EXCEPT ![l].pc = "create_worktree"]
            /\ UNCHANGED <<queue, slots>>
    /\ UNCHANGED <<registry, containers, gitlock, wt, branch, merged, claim,
                   planGen>>

\* _create_worktree returned.  It removed the worktree at the slot's path and
\* any worktree holding the task's branch, deleted the branch, and (ok) added
\* the worktree on a new branch at the base ref.
CreatedWt(f, p, w, t) ==
    [k \in DOMAIN f |-> IF k = <<p, w>> THEN t
                        ELSE IF k[1] = p /\ f[k] = t THEN 0 ELSE f[k]]

FailedWt(f, p, w, t) ==
    [k \in DOMAIN f |-> IF k = <<p, w>> \/ (k[1] = p /\ f[k] = t) THEN 0 ELSE f[k]]

\* The refs _create_worktree tries as the start of the new branch; it takes
\* the first one git rev-parse verifies.
BaseRefs == {"origin/base", "base", "HEAD"}

\* Where the new branch stands relative to <base>.  origin/<base> is what
\* the fetch just brought; it is ahead of <base> when the remote got commits
\* since the clone (nothing in the manager moves <base> to it).  HEAD is
\* taken only when neither origin/<base> nor <base> exists.
created_branch(base_ref, origin_ahead) ==
    IF base_ref = "HEAD" THEN "detached"
    ELSE IF base_ref = "origin/base" /\ origin_ahead THEN "upstream"
    ELSE "base"

LifeWorktreeReturnedAt(l, ok, base_ref, origin_ahead) ==
    /\ life[l].pc = "create_worktree"
    /\ LET t == life[l].task
           w == life[l].worker
       IN IF ok
          THEN /\ wt' = CreatedWt(wt, Proj(l), w, t)
               /\ branch' = [branch EXCEPT ![t] =
                                created_branch(base_ref, origin_ahead)]
               /\ life' = [life EXCEPT ![l].pc = "load_experience"]
               /\ UNCHANGED <<queue, slots>>
          ELSE /\ wt' = FailedWt(wt, Proj(l), w, t)
               /\ branch' = [branch EXCEPT ![t] = "none"]
               /\ queue' = SetFailed(queue, t, ErrorText("worktree creation failed"))
               /\ slots' = mark_idle(slots, w)
               /\ life' = Ended(l)
    /\ UNCHANGED <<registry, containers, gitlock, merged, claim, planGen>>

\* The same with a remote that nobody else pushes to: origin/<base> exists
\* and has nothing that <base> lacks.
LifeWorktreeReturned(l, ok) == LifeWorktreeReturnedAt(l, ok, "origin/base", FALSE)

\* _load_cross_project_experience returned; ContainerPool.run_task.  It
\* fails (slot status error) when the worktree path is missing or docker
\* refuses; on success the slot is busy with the new container.
LifeRunTask(l, dockerOk) ==
    /\ life[l].pc = "load_experience"
    /\ LET t == life[l].task
           w == life[l].worker
       IN IF wt[<<Proj(l), w>>] # 0 /\ dockerOk
          THEN /\ containers' = containers \cup {<<w, t>>}
               /\ slots' = [slots EXCEPT ![w] =
                              [status |-> "busy", cid |-> <<w, t>>, task |-> t]]
               /\ life' = [life EXCEPT ![l].pc = "wait_container"]
               /\ UNCHANGED queue
          ELSE /\ slots' = [slots EXCEPT ![w].status = "error"]
               /\ queue' = SetFailed(queue, t, ErrorText("container start failed"))
               /\ life' = [life EXCEPT ![l].pc = "cleanup_fail"]
               /\ UNCHANGED containers
    /\ UNCHANGED <<registry, gitlock, wt, branch, merged, claim, planGen>>

\* Exit codes wait_container can report for a container that has exited.
ExitCodes == {0, 1}

\* A reconcile that does not look at the exit code.
ReconcileIgnoringExitCode(l, exit_code) ==
    LET t == life[l].task
        w == life[l].worker
    IN IF ~InQueue(queue, t)
       THEN /\ slots' = mark_idle(slots, w)
            /\ life' = Ended(l)
            /\ UNCHANGED queue
       ELSE IF queue[t].status = "failed"
       THEN /\ life' = [life EXCEPT ![l].pc = "cleanup_fail"]
            /\ UNCHANGED <<queue, slots>>
       ELSE /\ life' = [life EXCEPT ![l].pc = "verify_commit"]
            /\ UNCHANGED <<queue, slots>>

\* wait_container returned with exit_code, then the status reconcile (step 4
\* of _handle_task) up to the next await.
Reconcile(l, exit_code) ==
    LET t == life[l].task
        w == life[l].worker
    IN IF ~InQueue(queue, t)
       THEN /\ slots' = mark_idle(slots, w)
            /\ life' = Ended(l)
            /\ UNCHANGED queue
       ELSE IF queue[t].status = "failed"
       THEN /\ life' = [life EXCEPT ![l].pc = "cleanup_fail"]
            /\ UNCHANGED <<queue, slots>>
       ELSE IF queue[t].status # "merging" /\ exit_code # 0
       THEN /\ queue' = SetFailed(queue, t, ErrorText("container exit"))
            /\ life' = [life EXCEPT ![l].pc = "cleanup_fail"]
            /\ UNCHANGED slots
       ELSE /\ life' = [life EXCEPT ![l].pc = "verify_commit"]
            /\ UNCHANGED <<queue, slots>>

LifeContainerExited(l, exit_code) ==
    /\ life[l].pc = "wait_container"
    /\ <<life[l].worker, life[l].task>> \notin containers
    /\ Reconcile(l, exit_code)
    /\ UNCHANGED <<registry, containers, gitlock, wt, branch, merged, claim,
                   planGen>>

\* container.wait(timeout=1800) raised: StatusCode -1 while the container
\* is still running.
LifeWaitTimeout(l) ==
    /\ life[l].pc = "wait_container"
    /\ <<life[l].worker, life[l].task>> \in containers
    /\ Reconcile(l, 0 - 1)
    /\ UNCHANGED <<registry, containers, gitlock, wt, branch, merged, claim,
                   planGen>>

\* _cleanup_worktree(delete_branch=True) returned on a failure path outside
\* the git lock; mark_idle; return.
LifeCleanupFail(l) ==
    /\ life[l].pc = "cleanup_fail"
    /\ wt' = WtRemoved(wt, Proj(l), life[l].worker)
    /\ branch' = BranchDeleted(branch, wt', life[l].task)
    /\ slots' = mark_idle(slots, life[l].worker)
    /\ life' = Ended(l)
    /\ UNCHANGED <<registry, queue, containers, gitlock, merged, claim, planGen>>

\* git log --oneline -1 in the worktree returned.  A missing worktree
\* directory makes subprocess.run raise (cwd does not exist), which ends the
\* coroutine; ok is git's answer in an existing directory.
LifeVerifyCommit(l, ok) ==
    /\ life[l].pc = "verify_commit"
    /\ IF wt[<<Proj(l), life[l].worker>>] = 0
       THEN /\ ok
            /\ life' = Ended(l)
            /\ UNCHANGED queue
       ELSE IF ok
       THEN /\ life' = [life EXCEPT ![l].pc = "verify_diff"]
            /\ UNCHANGED queue
       ELSE /\ queue' = SetFailed(queue, life[l].task,
                            ErrorText("no valid commit found in worktree"))
            /\ life' = [life EXCEPT ![l].pc = "cleanup_fail"]
    /\ UNCHANGED <<registry, slots, containers, gitlock, wt, branch, merged,
                   claim, planGen>>

\* Whether git log <base>..HEAD --oneline prints anything in a worktree
\* whose branch is in state b: the commits of the branch that <base> lacks,
\* the agent's or the remote's; nothing (an error on stderr) when <base>
\* is no ref.
lists_commits(b) == b \in {"ahead", "upstream"}

\* git log <base>..HEAD in the worktree returned.  Then the acquisition of
\* the project's git lock, immediate when the lock is free.
LifeVerifyDiff(l) ==
    /\ life[l].pc = "verify_diff"
    /\ LET p == Proj(l)
           u == wt[<<p, life[l].worker>>]
       IN IF u = 0
          THEN /\ life' = Ended(l)
               /\ UNCHANGED <<queue, gitlock>>
          ELSE IF ~lists_commits(branch[u])
          THEN /\ queue' = SetFailed(queue, life[l].task,
                               ErrorText("worker produced no new commits on branch"))
               /\ life' = [life EXCEPT ![l].pc = "cleanup_fail"]
               /\ UNCHANGED gitlock
          ELSE IF gitlock[p] = 0
          THEN /\ gitlock' = [gitlock EXCEPT ![p] = l]
               /\ life' = [life EXCEPT ![l].pc = "merge_and_test"]
               /\ UNCHANGED queue
          ELSE /\ life' = [life EXCEPT ![l].pc = "lock_wait"]
               /\ UNCHANGED <<queue, gitlock>>
    /\ UNCHANGED <<registry, slots, containers, wt, branch, merged, claim,
                   planGen>>

\* async with _get_project_lock(project_id): the lock became free.
LifeLockAcquired(l) ==
    /\ life[l].pc = "lock_wait"
    /\ gitlock[Proj(l)] = 0
    /\ gitlock' = [gitlock EXCEPT ![Proj(l)] = l]
    /\ life' = [life EXCEPT ![l].pc = "merge_and_test"]
    /\ UNCHANGED <<registry, queue, slots, containers, wt, branch, merged,
                   claim, planGen>>

\* _do_merge_and_test returned (it catches its own timeout); the script
\* works in the worktree and cannot succeed without it.
LifeMergeTested(l, merge_ok) ==
    /\ life[l].pc = "merge_and_test"
    /\ merge_ok => wt[<<Proj(l), life[l].worker>>] # 0
    /\ IF ~merge_ok
       THEN /\ queue' = SetFailed(queue, life[l].task, ErrorText("merge or test failed"))
            /\ life' = [life EXCEPT ![l].pc = "cleanup_locked"]
       ELSE /\ life' = [life EXCEPT ![l].pc =
                          IF AutoMerge(Proj(l)) THEN "auto_merge" ELSE "rev_parse"]
            /\ UNCHANGED queue
    /\ UNCHANGED <<registry, slots, containers, gitlock, wt, branch, merged,
                   claim, planGen>>

\* _cleanup_worktree(delete_branch=True) inside the lock returned; mark_idle;
\* return (the lock is released).
LifeCleanupLocked(l) ==
    /\ life[l].pc = "cleanup_locked"
    /\ wt' = WtRemoved(wt, Proj(l), life[l].worker)
    /\ branch' = BranchDeleted(branch, wt', life[l].task)
    /\ slots' = mark_idle(slots, life[l].worker)
    /\ gitlock' = Released(l)
    /\ life' = Ended(l)
    /\ UNCHANGED <<registry, queue, containers, merged, claim, planGen>>

\* _do_auto_merge returned: a commit (the branch exists and merged cleanly)
\* or None.
LifeAutoMerged(l, ok) ==
    /\ life[l].pc = "auto_merge"
    /\ ok => branch[life[l].task] # "none"
    /\ IF ok
       THEN /\ merged' = merged \cup {life[l].task}
            /\ queue' = update_task_status(queue, life[l].task, "completed",
                            Null, "merged", Null)
            /\ life' = [life EXCEPT ![l].pc = "cleanup_completed"]
       ELSE /\ life' = [life EXCEPT ![l].pc = "rev_parse"]
            /\ UNCHANGED <<merged, queue>>
    /\ UNCHANGED <<registry, slots, containers, gitlock, wt, branch, claim,
                   planGen>>

\* After a successful auto-merge: _log_experience and
\* _cleanup_worktree(delete_branch=True) returned; the lock is released and
\* the slot idled.
LifeCleanupCompleted(l) ==
    /\ life[l].pc = "cleanup_completed"
    /\ wt' = WtRemoved(wt, Proj(l), life[l].worker)
    /\ branch' = BranchDeleted(branch, wt', life[l].task)
    /\ slots' = mark_idle(slots, life[l].worker)
    /\ gitlock' = Released(l)
    /\ life' = Ended(l)
    /\ UNCHANGED <<registry, queue, containers, merged, claim, planGen>>

\* git rev-parse HEAD in the worktree returned (manual merge mode, or the
\* auto-merge failed); the task becomes merge_pending with that commit.
LifeRevParsed(l) ==
    /\ life[l].pc = "rev_parse"
    /\ IF wt[<<Proj(l), life[l].worker>>] = 0
       THEN /\ life' = Ended(l)
            /\ gitlock' = Released(l)
            /\ UNCHANGED queue
       ELSE /\ queue' = update_task_status(queue, life[l].task, "merge_pending",
                            Null, "worktree head", Null)
            /\ life' = [life EXCEPT ![l].pc = "cleanup_keep"]
            /\ UNCHANGED gitlock
    /\ UNCHANGED <<registry, slots, containers, wt, branch, merged, claim,
                   planGen>>

\* _log_experience and _cleanup_worktree(delete_branch=False) returned; the
\* lock is released and the slot idled.
LifeCleanupKeep(l) ==
    /\ life[l].pc = "cleanup_keep"
    /\ wt' = WtRemoved(wt, Proj(l), life[l].worker)
    /\ slots' = mark_idle(slots, life[l].worker)
    /\ gitlock' = Released(l)
    /\ life' = Ended(l)
    /\ UNCHANGED <<registry, queue, containers, branch, merged, claim, planGen>>

\* A git subprocess exceeded its timeout: _run_git raises TimeoutExpired,
\* nothing in _handle_task catches it, and the coroutine ends where it was.
RaisePcs ==
    {"create_worktree", "cleanup_fail", "cleanup_locked", "auto_merge",
     "cleanup_completed", "cleanup_keep", "verify_commit", "verify_diff",
     "rev_parse"}

LifeRaise(l) ==
    /\ life[l].pc \in RaisePcs
    /\ life' = Ended(l)
    /\ gitlock' = Released(l)
    /\ UNCHANGED <<registry, queue, slots, containers, wt, branch, merged,
                   claim, planGen>>

\* ------------------------------------------------------------------ containers
\* The agent in a running container commits in /workspace, the worktree
\* mounted from the slot's path: the branch checked out there moves ahead.
\* By the container contract the agent works between its running report
\* and its final report.
AgentCommit(w, t) ==
    /\ <<w, t>> \in containers
    /\ queue[t].status = "running"
    /\ wt[<<ProjectOf(t), w>>] # 0
    /\ branch[wt[<<ProjectOf(t), w>>]] \in {"base", "upstream", "detached"}
    /\ branch' = [branch EXCEPT ![wt[<<ProjectOf(t), w>>]] =
                     IF @ = "detached" THEN "detached ahead" ELSE "ahead"]
    /\ UNCHANGED <<registry, queue, slots, containers, life, gitlock, wt,
                   merged, claim, planGen>>

\* The agent in a running container reports its task's status to
\* app.internal_update_status, in the order of the container contract:
\* running first, then merging or failed once.  (Reports out of that order
\* are covered by UpdateStatus.)
AgentReport(w, t, status) ==
    /\ <<w, t>> \in containers
    /\ \/ status = "running" /\ queue[t].status = "claimed"
       \/ status \in {"merging", "failed"} /\ queue[t].status \in {"claimed", "running"}
    /\ UpdateStatus(t, status)

\* A worker container exits (auto_remove removes it).
ContainerExit(w, t) ==
    /\ <<w, t>> \in containers
    /\ containers' = containers \ {<<w, t>>}
    /\ UNCHANGED <<registry, queue, slots, life, gitlock, wt, branch, merged,
                   claim, planGen>>

\* ------------------------------------------------------------------ restart
\* dispatcher.recover_stale_tasks over the registered projects: stale tasks
\* go back to pending; every worktree and claude/* branch is removed.
Registered(t) == registry[ProjectOf(t)] # "absent"

\* A recovery that takes merge_pending for a stale status too.
recover_unmerged_too(q) ==
    [t \in TaskIds |->
        IF InQueue(q, t) /\ Registered(t)
              /\ q[t].status \in ActiveStatuses \cup {"merge_pending"}
        THEN [q[t] EXCEPT !.status = "pending", !.worker_id = 0, !.error = Null]
        ELSE q[t]]

\* A recovery that moves stale tasks to claimed, which is stale itself.
recover_to_claimed(q) ==
    [t \in TaskIds |->
        IF InQueue(q, t) /\ Registered(t) /\ q[t].status \in ActiveStatuses
        THEN [q[t] EXCEPT !.status = IF @ = "claimed" THEN "pending" ELSE "claimed",
                          !.worker_id = 0, !.error = Null]
        ELSE q[t]]

\* The number recover_stale_tasks returns: the tasks it reset.
recovered(q) ==
    Cardinality({t \in TaskIds :
        InQueue(q, t) /\ Registered(t) /\ q[t].status \in ActiveStatuses})

recover_stale_tasks(q) ==
    [t \in TaskIds |->
        IF InQueue(q, t) /\ Registered(t) /\ q[t].status \in ActiveStatuses
        THEN [q[t] EXCEPT !.status = "pending", !.worker_id = 0, !.error = Null]
        ELSE q[t]]

\* The manager process dies and starts again (app.lifespan): coroutines and
\* the in-process locks are gone, recovery runs, ContainerPool.__init__
\* removes the worker containers and creates idle slots.
RestartFrom(q) ==
    /\ queue' = recover_stale_tasks(q)
    /\ wt' = [k \in DOMAIN wt |-> IF registry[k[1]] # "absent" THEN 0 ELSE wt[k]]
    /\ branch' = [t \in TaskIds |-> IF Registered(t) THEN "none" ELSE branch[t]]
    /\ containers' = {}
    /\ slots' = [w \in Slots |-> IdleSlot]
    /\ life' = [l \in LifeIds |-> FreeLife]
    /\ gitlock' = [p \in Projects |-> 0]
    /\ planGen' = {}
    /\ claim' = [claim EXCEPT !["disp"] = IdleClaim]
    /\ UNCHANGED <<registry, merged>>

Restart == RestartFrom(queue)

\* What _read_queue returns for the queue file of project p after a
\* _write_queue that did not finish: open(tasks_file, "w") has truncated the
\* file and json.dump has written none or a part of the text, the parse
\* raises JSONDecodeError and the result is an empty TaskQueue.
read_torn(q, p) ==
    [t \in TaskIds |->
        IF ProjectOf(t) = p /\ q[t].exists = "yes"
        THEN [q[t] EXCEPT !.exists = "lost"] ELSE q[t]]

\* The manager is killed inside the _write_queue of an add_task for task t
\* and started again.
WriteQueueKilled(t) ==
    /\ queue[t].exists = "no"
    /\ \A u \in TaskIds : u < t => queue[u].exists # "no"
    /\ RestartFrom(read_torn(queue, ProjectOf(t)))

\* ------------------------------------------------------------------ next
\* Requests that reach the manager's event loop from outside: the HTTP API.
\* cancel_task and retry_task answer 200 or 400; of the other handlers only
\* the accepted requests are steps.
ApiRequest ==
    \/ \E t \in TaskIds : CancelTask(t)
    \/ \E t \in TaskIds : RetryTask(t)
    \/ /\ \/ \E t \in TaskIds, pm \in BOOLEAN : CreateTask(t, pm)
          \/ \E t \in TaskIds : DeleteTask(t)
          \/ \E p \in Projects : ListTasks(p)
          \/ ListWorkers
          \/ \E w \in Slots : RestartWorker(w)
          \/ \E p \in Projects : DeleteProject(p)
          \/ \E t \in TaskIds : GeneratePlan(t)
          \/ \E t \in TaskIds, ok \in BOOLEAN : ApprovePlan(t, ok)
          \/ \E t \in TaskIds : PlanChat(t)
          \/ \E t \in TaskIds : MergeTask(t)
       /\ response' = 200

\* Coroutines of the event loop resuming.
LoopStep ==
    \/ \E t \in TaskIds, ok \in BOOLEAN : PlanGenerated(t, ok)
    \/ \E t \in TaskIds, ok \in BOOLEAN : PlanChatDone(t, ok)
    \/ \E l \in LifeIds : LifeStart(l)
    \/ \E l \in LifeIds, ok \in BOOLEAN : LifeWorktreeReturned(l, ok)
    \/ \E l \in LifeIds, ok \in BOOLEAN : LifeRunTask(l, ok)
    \/ \E l \in LifeIds, c \in ExitCodes : LifeContainerExited(l, c)
    \/ \E l \in LifeIds : LifeWaitTimeout(l)
    \/ \E l \in LifeIds : LifeCleanupFail(l)
    \/ \E l \in LifeIds, ok \in BOOLEAN : LifeVerifyCommit(l, ok)
    \/ \E l \in LifeIds : LifeVerifyDiff(l)
    \/ \E l \in LifeIds : LifeLockAcquired(l)
    \/ \E l \in LifeIds, ok \in BOOLEAN : LifeMergeTested(l, ok)
    \/ \E l \in LifeIds : LifeCleanupLocked(l)
    \/ \E l \in LifeIds, ok \in BOOLEAN : LifeAutoMerged(l, ok)
    \/ \E l \in LifeIds : LifeCleanupCompleted(l)
    \/ \E l \in LifeIds : LifeRevParsed(l)
    \/ \E l \in LifeIds : LifeCleanupKeep(l)

\* Each request from outside the manager (API call, callback, CLI run,
\* restart) uses one unit of the behaviour's budget of MaxCalls.
Call ==
    /\ calls < MaxCalls
    /\ calls' = calls + 1
    /\ UNCHANGED <<candidates, first, response, ops, qops, events, mergeReq, logfile, reader>>

\* A request to the task API; its handler gives the answer.
Request ==
    calls < MaxCalls /\ calls' = calls + 1 /\ UNCHANGED <<candidates, first, ops, qops, events, mergeReq, logfile, reader>>

\* A step that is no new request.
NoCall == UNCHANGED <<calls, candidates, first, response, ops, qops, events, mergeReq, logfile, reader>>

Next ==
    \/ DispSnapshot /\ NoCall
    \/ DispCommit /\ NoCall
    \/ CliSnapshot /\ Call
    \/ CliCommit /\ NoCall
    \/ (\E t \in TaskIds, s \in CallbackStatuses : UpdateStatus(t, s)) /\ Call
    \/ (\E w \in Slots, t \in TaskIds : AgentCommit(w, t)) /\ NoCall
    \/ (\E w \in Slots, t \in TaskIds, s \in CallbackStatuses :
            AgentReport(w, t, s)) /\ NoCall
    \/ (\E w \in Slots, t \in TaskIds : ContainerExit(w, t)) /\ NoCall
    \/ Restart /\ Call
    \/ (\E t \in TaskIds : CreateTaskPlanPending(t)) /\ NoCall
    \/ LoopFree /\ ApiRequest /\ Request
    \/ LoopFree /\ LoopStep /\ NoCall

Spec == Init /\ [][Next]_vars

\* The same system with git subprocess timeouts.
NextFaults ==
    \/ Next
    \/ LoopFree /\ (\E l \in LifeIds : LifeRaise(l)) /\ NoCall

SpecFaults == Init /\ [][NextFaults]_vars

\* The dispatcher loop, the lifecycles it spawns and their containers with
\* no request from outside, over every base ref _create_worktree can start
\* a branch from and a remote that may have moved ahead of <base>.
NextBase ==
    \/ DispSnapshot /\ NoCall
    \/ DispCommit /\ NoCall
    \/ (\E w \in Slots, t \in TaskIds : AgentCommit(w, t)) /\ NoCall
    \/ (\E w \in Slots, t \in TaskIds, s \in CallbackStatuses :
            AgentReport(w, t, s)) /\ NoCall
    \/ (\E w \in Slots, t \in TaskIds : ContainerExit(w, t)) /\ NoCall
    \/ LoopFree /\ (\E l \in LifeIds, ok, origin_ahead \in BOOLEAN,
                        base_ref \in BaseRefs :
                        LifeWorktreeReturnedAt(l, ok, base_ref, origin_ahead))
                /\ NoCall
    \/ LoopFree /\ LoopStep /\ NoCall

SpecBase == Init /\ [][NextBase]_vars

\* The dispatcher loop and its lifecycles with git subprocesses that can
\* exceed their timeouts, and no request from outside.
NextTimeouts ==
    \/ NextBase
    \/ LoopFree /\ (\E l \in LifeIds : LifeRaise(l)) /\ NoCall

SpecTimeouts == Init /\ [][NextTimeouts]_vars

\* The dispatcher loop and its lifecycles with the manual merge endpoint in
\* its steps and a budget of requests that delete a task or report a
\* status.
NextMerge ==
    \/ NextBase
    \/ LoopFree /\ (\E t \in TaskIds : MergeRequested(t))
    \/ LoopFree /\ (\E p \in Projects, ok \in BOOLEAN : MergeAnswered(p, ok))
    \/ LoopFree /\ (\E t \in TaskIds : DeleteTask(t)) /\ Call
    \/ (\E t \in TaskIds, st \in CallbackStatuses : UpdateStatus(t, st)) /\ Call

SpecMerge == Init /\ [][NextMerge]_vars

\* write task statuses, with a larger budget of requests; the lifecycles the
\* dispatcher spawns are not scheduled (they write no worker_id).
ClaimCall ==
    /\ calls < MaxClaimCalls
    /\ calls' = calls + 1
    /\ UNCHANGED <<candidates, first, response, ops, qops, events, mergeReq, logfile, reader>>

ClaimRequest ==
    calls < MaxClaimCalls /\ calls' = calls + 1
        /\ UNCHANGED <<candidates, first, ops, qops, events, mergeReq, logfile, reader>>

StatusRequest ==
    \/ \E t \in TaskIds : CancelTask(t)
    \/ \E t \in TaskIds : RetryTask(t)
    \/ /\ \/ \E t \in TaskIds, pm \in BOOLEAN : CreateTask(t, pm)
          \/ \E t \in TaskIds : DeleteTask(t)
          \/ \E t \in TaskIds, ok \in BOOLEAN : ApprovePlan(t, ok)
       /\ response' = 200

NextClaim ==
    \/ DispSnapshot /\ NoCall
    \/ DispCommit /\ NoCall
    \/ CliSnapshot /\ ClaimCall
    \/ CliCommit /\ NoCall
    \/ (\E t \in TaskIds, s \in CallbackStatuses : UpdateStatus(t, s)) /\ ClaimCall
    \/ Restart /\ ClaimCall
    \/ (\E t \in TaskIds : CreateTaskPlanPending(t)) /\ NoCall
    \/ LoopFree /\ StatusRequest /\ ClaimRequest
    \/ LoopFree /\ (\E t \in TaskIds, ok \in BOOLEAN : PlanGenerated(t, ok))
                /\ NoCall

SpecClaim == Init /\ [][NextClaim]_vars

\* The same over every status a registered project can have: the projects
\* are cloned, fail, are retried and deleted while tasks are added and
\* claimed.
InitProjects ==
    /\ registry \in [Projects -> ProjectStatus]
    /\ \E k \in 0..MaxTasks :
          queue = [t \in TaskIds |-> IF t <= k THEN NewTask ELSE NoTask]
    /\ slots = [w \in Slots |-> IdleSlot]
    /\ containers = {}
    /\ life = [l \in LifeIds |-> FreeLife]
    /\ gitlock = [p \in Projects |-> 0]
    /\ wt = [k \in Projects \X Slots |-> 0]
    /\ branch = [t \in TaskIds |-> "none"]
    /\ merged = {}
    /\ claim = [c \in {"disp", "cli"} |-> IdleClaim]
    /\ planGen = {}
    /\ calls = 0
    /\ candidates = <<>>
    /\ first = <<>>
    /\ response = 0
    /\ ops = [o \in OpIds |-> IdleOp]
    /\ reader = NewReader
    /\ logfile = NoLog
    /\ mergeReq = [p \in Projects |-> 0]
    /\ events = <<>>
    /\ qops = [o \in OpIds |-> IdleQueueOp]

NextProjects ==
    \/ NextClaim
    \/ LoopFree /\ (\E p \in Projects, ok \in BOOLEAN : CloneFinished(p, ok))
                /\ NoCall
    \/ LoopFree /\ (\E p \in Projects : RetryProject(p)) /\ ClaimCall
    \/ LoopFree /\ (\E p \in Projects : DeleteProject(p)) /\ ClaimCall

SpecProjects == InitProjects /\ [][NextProjects]_vars

\* The same with a manager that can be killed while it writes a queue file.
NextCrash ==
    \/ NextClaim
    \/ (\E t \in TaskIds : WriteQueueKilled(t)) /\ ClaimCall

SpecCrash == Init /\ [][NextCrash]_vars

\* ------------------------------------------------------------------ the sort
\* claim_next's choice as a function of the candidate list alone: the list
\* of one call is drawn from the bounded lists a scan can produce (project
\* after project, every entry claimable), and the call sorts it and takes
\* the head.
Items ==
    [project : {"P", "Q"}, status : {"pending", "plan_approved"},
     priority : 0..MaxPriority, created_at : 1..MaxStamp]

\* A scan takes the candidates project after project.
ProjectAfterProject(list) ==
    \A i, j, k \in DOMAIN list :
        (i < j /\ j < k /\ list[i].project = list[k].project)
            => list[j].project = list[i].project

InitSort ==
    /\ Started
    /\ \A t \in TaskIds : ~InQueue(queue, t)
    /\ \E n \in 1..MaxScan : candidates \in [1..n -> Items]
    /\ ProjectAfterProject(candidates)
    /\ first = <<>>
    /\ response = 0
    /\ ops = [o \in OpIds |-> IdleOp]
    /\ reader = NewReader
    /\ logfile = NoLog
    /\ mergeReq = [p \in Projects |-> 0]
    /\ events = <<>>
    /\ qops = [o \in OpIds |-> IdleQueueOp]

SortAndTake ==
    /\ first = <<>>
    /\ candidates # <<>>
    /\ first' = <<Sorted(candidates)[1]>>
    /\ UNCHANGED <<registry, queue, slots, containers, life, gitlock, wt,
                   branch, merged, claim, planGen, calls, candidates,
                   response, ops, qops, events, mergeReq, logfile, reader>>

NextSort == SortAndTake

SpecSort == InitSort /\ [][NextSort]_vars

\* The same lists with the task ids, which Task.id draws at random
\* (uuid4().hex[:8]): the ids of one list are distinct and follow neither
\* the creation times nor the order of the queue file.
ItemsWithId ==
    [id : 1..MaxScan, project : {"P", "Q"}, status : {"pending", "plan_approved"},
     priority : 0..MaxPriority, created_at : 1..MaxStamp]

InitSortIds ==
    /\ Started
    /\ \A t \in TaskIds : ~InQueue(queue, t)
    /\ \E n \in 1..MaxScan : candidates \in [1..n -> ItemsWithId]
    /\ \A i, j \in DOMAIN candidates : i # j => candidates[i].id # candidates[j].id
    /\ ProjectAfterProject(candidates)
    /\ first = <<>>
    /\ response = 0
    /\ ops = [o \in OpIds |-> IdleOp]
    /\ reader = NewReader
    /\ logfile = NoLog
    /\ mergeReq = [p \in Projects |-> 0]
    /\ events = <<>>
    /\ qops = [o \in OpIds |-> IdleQueueOp]

SpecSortIds == InitSortIds /\ [][NextSort]_vars

\* ------------------------------------------------------------------ recovery
\* Startup recovery as a function of what a killed manager leaves on disk:
\* the registry, the queue files and the repositories are drawn from the
\* bounded contents they can have, and the manager is started MaxStarts
\* times in succession.
StoredTasks ==
    {task \in [exists : {"yes"}, status : TaskStatus, worker_id : 0..NumWorkers,
               error : {Null, ErrorText("any")}, completed_at : BOOLEAN,
               started_at : BOOLEAN, commit_id : {Null}, branch : {Null},
               plan_mode : BOOLEAN] :
        /\ task.started_at = (task.worker_id # 0)
        /\ task.completed_at = (task.status = "completed")
        /\ task.status \in ActiveStatuses => task.worker_id # 0}

InitRecover ==
    /\ slots = [w \in Slots |-> IdleSlot]
    /\ containers = {}
    /\ life = [l \in LifeIds |-> FreeLife]
    /\ gitlock = [p \in Projects |-> 0]
    /\ merged = {}
    /\ claim = [c \in {"disp", "cli"} |-> IdleClaim]
    /\ planGen = {}
    /\ calls = 0
    /\ registry \in [Projects -> {"ready", "absent"}]
    /\ queue \in [TaskIds -> StoredTasks \cup {NoTask}]
    /\ branch \in [TaskIds -> {"none", "ahead"}]
    /\ \A t \in TaskIds : branch[t] # "none" => queue[t].worker_id # 0
    /\ wt \in [Projects \X Slots -> {0} \cup TaskIds]
    /\ \A k \in DOMAIN wt :
          wt[k] # 0 => /\ ProjectOf(wt[k]) = k[1]
                       /\ queue[wt[k]].worker_id = k[2]
                       /\ branch[wt[k]] # "none"
    /\ candidates = <<>>
    /\ first = <<>>
    /\ response = 0
    /\ ops = [o \in OpIds |-> IdleOp]
    /\ reader = NewReader
    /\ logfile = NoLog
    /\ mergeReq = [p \in Projects |-> 0]
    /\ events = <<>>
    /\ qops = [o \in OpIds |-> IdleQueueOp]

NextRecover ==
    Restart /\ calls < MaxStarts /\ calls' = calls + 1
            /\ UNCHANGED <<candidates, first, response, ops, qops, events, mergeReq, logfile, reader>>

SpecRecover == InitRecover /\ [][NextRecover]_vars

\* recover_stale_tasks when the queue locks of the projects in held are in
\* another process's hands for the 5 seconds of FileLock(lock_file,
\* timeout=5) (claim_task.py of a worker container that outlived the
\* manager takes the same lock file): the Timeout is caught by except
\* Exception: continue, which leaves the loop body for that project before
\* the tasks are reset and before the worktrees and branches are removed.
recover_stale_tasks_held(q, held) ==
    [t \in TaskIds |->
        IF ProjectOf(t) \in held THEN q[t] ELSE recover_stale_tasks(q)[t]]

RestartHeld(held) ==
    /\ held # {}
    /\ \A p \in held : registry[p] # "absent"
    /\ queue' = recover_stale_tasks_held(queue, held)
    /\ wt' = [k \in DOMAIN wt |->
                IF registry[k[1]] # "absent" /\ k[1] \notin held THEN 0 ELSE wt[k]]
    /\ branch' = [t \in TaskIds |->
                    IF Registered(t) /\ ProjectOf(t) \notin held
                    THEN "none" ELSE branch[t]]
    /\ containers' = {}
    /\ slots' = [w \in Slots |-> IdleSlot]
    /\ life' = [l \in LifeIds |-> FreeLife]
    /\ gitlock' = [p \in Projects |-> 0]
    /\ planGen' = {}
    /\ claim' = [claim EXCEPT !["disp"] = IdleClaim]
    /\ UNCHANGED <<registry, merged>>

NextRecoverHeld ==
    \/ NextRecover
    \/ (\E held \in SUBSET Projects : RestartHeld(held))
          /\ calls < MaxStarts /\ calls' = calls + 1
          /\ UNCHANGED <<candidates, first, response, ops, qops, events, mergeReq, logfile, reader>>

SpecRecoverHeld == InitRecover /\ [][NextRecoverHeld]_vars

\* ------------------------------------------------------------------ requests
\* cancel_task and retry_task as functions of the state they find: the queue
\* and the worker slots are drawn from the bounded contents they can have.
BusySlots(w) ==
    {[status |-> "busy", cid |-> <<w, t>>, task |-> t] : t \in TaskIds}

InitRequests ==
    /\ registry = [p \in Projects |-> "ready"]
    /\ life = [l \in LifeIds |-> FreeLife]
    /\ gitlock = [p \in Projects |-> 0]
    /\ wt = [k \in Projects \X Slots |-> 0]
    /\ branch = [t \in TaskIds |-> "none"]
    /\ merged = {}
    /\ claim = [c \in {"disp", "cli"} |-> IdleClaim]
    /\ planGen = {}
    /\ calls = 0
    /\ candidates = <<>>
    /\ first = <<>>
    /\ response = 0
    /\ ops = [o \in OpIds |-> IdleOp]
    /\ reader = NewReader
    /\ logfile = NoLog
    /\ mergeReq = [p \in Projects |-> 0]
    /\ events = <<>>
    /\ qops = [o \in OpIds |-> IdleQueueOp]
    /\ queue \in [TaskIds -> StoredTasks \cup {NoTask}]
    /\ slots \in [Slots -> {IdleSlot} \cup UNION {BusySlots(w) : w \in Slots}]
    /\ \A w \in Slots :
          slots[w].status = "busy" =>
              /\ slots[w] \in BusySlots(w)
              /\ queue[slots[w].task].worker_id = w
    /\ containers \in SUBSET {slots[w].cid : w \in Slots}
    /\ <<>> \notin containers

NextCancel ==
    (\E t \in TaskIds : CancelTask(t))
        /\ UNCHANGED <<calls, candidates, first, ops, qops, events, mergeReq, logfile, reader>>

SpecCancel == InitRequests /\ [][NextCancel]_vars

NextRetry ==
    \/ (\E t \in TaskIds : RetryTask(t))
          /\ UNCHANGED <<calls, candidates, first, ops, qops, events, mergeReq, logfile, reader>>
    \/ (\E t \in TaskIds, ok \in BOOLEAN : PlanGenerated(t, ok)) /\ NoCall

SpecRetry == InitRequests /\ [][NextRetry]_vars

\* The status callback as a function of the queue it finds and of its body:
\* the first task is stored in any state, with or without a branch and a
\* commit recorded by earlier callbacks, the second is new or was never
\* created.
CallbackTasks ==
    {[task EXCEPT !.branch = br, !.commit_id = commit] :
        task \in {stored \in StoredTasks :
                     ~stored.plan_mode /\ stored.worker_id <= 1},
        br \in BodyBranches, commit \in BodyCommits}

InitCallback ==
    /\ registry = [p \in Projects |-> "ready"]
    /\ slots = [w \in Slots |-> IdleSlot]
    /\ containers = {}
    /\ life = [l \in LifeIds |-> FreeLife]
    /\ gitlock = [p \in Projects |-> 0]
    /\ wt = [k \in Projects \X Slots |-> 0]
    /\ branch = [t \in TaskIds |-> "none"]
    /\ merged = {}
    /\ claim = [c \in {"disp", "cli"} |-> IdleClaim]
    /\ planGen = {}
    /\ calls = 0
    /\ candidates = <<>>
    /\ first = <<>>
    /\ response = 0
    /\ ops = [o \in OpIds |-> IdleOp]
    /\ reader = NewReader
    /\ logfile = NoLog
    /\ mergeReq = [p \in Projects |-> 0]
    /\ events = <<>>
    /\ qops = [o \in OpIds |-> IdleQueueOp]
    /\ queue \in [TaskIds -> CallbackTasks \cup {NewTask, NoTask}]
    /\ queue[1] \in CallbackTasks
    /\ \A t \in TaskIds \ {1} : queue[t] \in {NewTask, NoTask}

NextCallback ==
    (\E t \in TaskIds, status \in BodyStatuses, br \in BodyBranches,
        commit \in BodyCommits, error \in BodyErrors :
        internal_update_status(t, status, br, commit, error))
        /\ Request

SpecCallback == InitCallback /\ [][NextCallback]_vars

\* ------------------------------------------------------------------ file locks
\* The registry operations of dispatcher.py as the file-lock steps they
\* take.  Lock 0 is REGISTRY_LOCK, lock p the tasks.json.lock of project p.
\* Concurrent operations are those of different processes (the manager,
\* claim_task.py runs); each FileLock has a timeout, and caught says whether
\* the function catches the Timeout and goes on or lets it end the call.
Locks == {0} \cup Projects

Acquire(k, caught) == [do |-> "acquire", lock |-> k, caught |-> caught]
Release(k) == [do |-> "release", lock |-> k, caught |-> FALSE]

\* with FileLock(...): ... around a read or a read-modify-write.
WithLock(k) == <<Acquire(k, FALSE), Release(k)>>

\* A queue operation that looks into the registry while it holds the lock
\* of the queue.
queue_op_reading_registry(p) ==
    <<Acquire(p, FALSE), Acquire(0, FALSE), Release(0), Release(p)>>

\* get_all_projects, add_project, delete_project, get_project,
\* update_project_status, update_project_settings (add_project writes the
\* new queue file without taking its lock).
registry_op == WithLock(0)

\* get_all_tasks, add_task, delete_task, get_task, update_task_status.
queue_op(p) == WithLock(p)

\* for project in ...: try: with plock: ... except Exception: continue, over
\* the projects ps in registry order.
RECURSIVE scan(_)
scan(ps) ==
    IF ps = {} THEN <<>>
    ELSE <<Acquire(MinOf(ps), TRUE), Release(MinOf(ps))>> \o scan(ps \ {MinOf(ps)})

\* recover_stale_tasks: the registry is read under its lock, the lock is
\* released, then every registered project ps is scanned.
recover_stale_tasks_locks(ps) == WithLock(0) \o scan(ps)

\* claim_next: the registry read, the scan of the ready projects, and with
\* a candidate the lock of the best candidate's project (0: no candidate).
claim_next_locks(ready, best) ==
    WithLock(0) \o scan(ready) \o (IF best = 0 THEN <<>> ELSE WithLock(best))

LockPrograms ==
    {registry_op}
    \cup {queue_op(p) : p \in Projects}
    \cup {recover_stale_tasks_locks(ps) : ps \in SUBSET Projects}
    \cup {claim_next_locks(ready, best) :
              ready \in SUBSET Projects, best \in {0}}
    \cup UNION {{claim_next_locks(ready, best) : best \in ready} :
                  ready \in SUBSET Projects}

Holder(k) == {o \in OpIds : k \in ops[o].holds}

Others == <<registry, queue, slots, containers, life, gitlock, wt, branch,
            merged, claim, planGen, calls, candidates, first, response, qops, events, mergeReq, logfile, logfile, reader, reader>>

\* A process calls a registry operation.
OpCall(o, prog) ==
    /\ ops[o] = IdleOp
    /\ prog # <<>>
    /\ ops' = [ops EXCEPT ![o] = [prog |-> prog, holds |-> {}]]
    /\ UNCHANGED Others

\* FileLock.acquire succeeds: nobody holds the lock file.
OpAcquire(o) ==
    /\ ops[o].prog # <<>>
    /\ Head(ops[o].prog).do = "acquire"
    /\ Holder(Head(ops[o].prog).lock) = {}
    /\ ops' = [ops EXCEPT ![o] = [prog |-> Tail(@.prog),
                                  holds |-> @.holds \cup {Head(@.prog).lock}]]
    /\ UNCHANGED Others

\* FileLock.acquire raises Timeout: the lock stayed held for the timeout.
\* A caught Timeout skips the block of the with statement; any other ends
\* the call, and the with blocks it is in release what they hold.
OpTimeout(o) ==
    /\ ops[o].prog # <<>>
    /\ Head(ops[o].prog).do = "acquire"
    /\ Holder(Head(ops[o].prog).lock) # {}
    /\ ops' = [ops EXCEPT ![o] =
                  IF Head(@.prog).caught
                  THEN [@ EXCEPT !.prog = Tail(Tail(@))]
                  ELSE IdleOp]
    /\ UNCHANGED Others

\* The end of a with block.
OpRelease(o) ==
    /\ ops[o].prog # <<>>
    /\ Head(ops[o].prog).do = "release"
    /\ ops' = [ops EXCEPT ![o] = [prog |-> Tail(@.prog),
                                  holds |-> @.holds \ {Head(@.prog).lock}]]
    /\ UNCHANGED Others

NextLocks ==
    \/ \E o \in OpIds, prog \in LockPrograms : OpCall(o, prog)
    \/ \E o \in OpIds : OpAcquire(o)
    \/ \E o \in OpIds : OpTimeout(o)
    \/ \E o \in OpIds : OpRelease(o)

SpecLocks == Init /\ [][NextLocks]_vars

\* ------------------------------------------------------------------ queue file
\* The calls of dispatcher.py that write one project's tasks.json, made by
\* concurrent processes, at the granularity of their steps: the FileLock of
\* the queue is acquired, _read_queue reads the file, the call changes what
\* it read and _write_queue writes it back, the lock is released.
QueueCallStatuses == {"running", "failed"}

\* What a call makes of the queue q it read.
Applied(call, q) ==
    CASE call.kind = "add_task" -> [q EXCEPT ![call.task] = NewTask]
      [] call.kind = "delete_task" ->
            IF InQueue(q, call.task)
            THEN [q EXCEPT ![call.task] = [@ EXCEPT !.exists = "deleted"]]
            ELSE q
      [] call.kind = "update_task_status" ->
            update_task_status(q, call.task, call.status, Null, Null, Null)
      [] call.kind = "claim_next" ->
            IF InQueue(q, call.task) /\ q[call.task].status = call.status
            THEN Claimed(q, call.task, CliWorker)
            ELSE q
      [] call.kind = "recover_stale_tasks" -> recover_stale_tasks(q)
      [] OTHER -> q

\* Task ids are fresh: no call adds a task another call is adding.
BeingAdded ==
    {qops[o].call.task : o \in {k \in OpIds : qops[k].call.kind = "add_task"}}

\* The calls a process can make on the queue as it is.  claim_next comes
\* here with the candidate its scan picked, for its second phase.
QueueCalls ==
    {[kind |-> "add_task", task |-> t, status |-> Null] :
        t \in {u \in TaskIds : queue[u].exists = "no" /\ u \notin BeingAdded}}
    \cup {[kind |-> "delete_task", task |-> t, status |-> Null] : t \in TaskIds}
    \cup {[kind |-> "update_task_status", task |-> t, status |-> st] :
             t \in TaskIds, st \in QueueCallStatuses}
    \cup {[kind |-> "claim_next", task |-> t, status |-> queue[t].status] :
             t \in IF all_candidates(registry, queue) = {} THEN {}
                   ELSE {best_task(queue, all_candidates(registry, queue))}}
    \cup {[kind |-> "recover_stale_tasks", task |-> 0, status |-> Null]}

\* The processes inside the with block of the queue's FileLock.
LockHolders == {o \in OpIds : qops[o].pc \in {"locked", "read"}}

NotQueue == <<registry, slots, containers, life, gitlock, wt, branch, merged,
              claim, planGen, candidates, first, response, ops, events,
              mergeReq, logfile, reader>>

\* A process calls a function of dispatcher.py and reaches its with lock.
QueueCall(o, call) ==
    /\ qops[o].pc = "idle"
    /\ call \in QueueCalls
    /\ calls < MaxClaimCalls
    /\ calls' = calls + 1
    /\ qops' = [qops EXCEPT ![o] = [pc |-> "wait", call |-> call, seen |-> <<>>]]
    /\ UNCHANGED queue
    /\ UNCHANGED NotQueue

\* An acquire that does not look whether the lock file is held.
QueueAcquireUnlocked(o) ==
    /\ qops[o].pc = "wait"
    /\ qops' = [qops EXCEPT ![o].pc = "locked"]
    /\ UNCHANGED <<queue, calls>>
    /\ UNCHANGED NotQueue

\* FileLock.acquire: the lock file is held by no other process.
QueueAcquire(o) ==
    /\ qops[o].pc = "wait"
    /\ LockHolders = {}
    /\ qops' = [qops EXCEPT ![o].pc = "locked"]
    /\ UNCHANGED <<queue, calls>>
    /\ UNCHANGED NotQueue

\* FileLock raises Timeout: the call ends with nothing read or written
\* (recover_stale_tasks and the scans go on to the next project).
QueueTimeout(o) ==
    /\ qops[o].pc = "wait"
    /\ LockHolders # {}
    /\ qops' = [qops EXCEPT ![o] = IdleQueueOp]
    /\ UNCHANGED <<queue, calls>>
    /\ UNCHANGED NotQueue

\* _read_queue inside the with block.
QueueRead(o) ==
    /\ qops[o].pc = "locked"
    /\ qops' = [qops EXCEPT ![o].pc = "read", ![o].seen = queue]
    /\ UNCHANGED <<queue, calls>>
    /\ UNCHANGED NotQueue

\* _write_queue of the changed queue (a call that changed nothing writes
\* nothing) and the end of the with block.
QueueWrite(o) ==
    /\ qops[o].pc = "read"
    /\ queue' = Applied(qops[o].call, qops[o].seen)
    /\ qops' = [qops EXCEPT ![o] = IdleQueueOp]
    /\ UNCHANGED calls
    /\ UNCHANGED NotQueue

NextQueue ==
    \/ \E o \in OpIds, call \in QueueCalls : QueueCall(o, call)
    \/ \E o \in OpIds : QueueAcquire(o)
    \/ \E o \in OpIds : QueueTimeout(o)
    \/ \E o \in OpIds : QueueRead(o)
    \/ \E o \in OpIds : QueueWrite(o)

SpecQueue == Init /\ [][NextQueue]_vars

\* ------------------------------------------------------------------ event log
\* event_log.py.  A record is told from the others by its place in the
\* order of emission (its ts, source and message are not looked at).
\* deque.append on a deque with maxlen: a full deque drops its oldest item.
deque_append(evs, record) ==
    IF Len(evs) = maxlen THEN Append(Tail(evs), record) ELSE Append(evs, record)

\* list[start:] of Python for a list of length n: the 0-based index the
\* slice begins at.  A negative start counts from the end, and both are
\* clamped to the list.
slice_from(n, start) ==
    IF start < 0
    THEN (IF n + start < 0 THEN 0 ELSE n + start)
    ELSE (IF start > n THEN n ELSE start)

\* event_log.recent: list(_events)[-limit:].
recent(evs, limit) == SubSeq(evs, slice_from(Len(evs), 0 - limit) + 1, Len(evs))

NotEvents == <<registry, queue, slots, containers, life, gitlock, wt, branch,
               merged, claim, planGen, candidates, first, ops, qops, mergeReq, logfile, reader>>

\* event_log.emit; calls counts the records emitted so far.
Emit ==
    /\ calls < MaxEmits
    /\ calls' = calls + 1
    /\ events' = deque_append(events, calls + 1)
    /\ UNCHANGED response
    /\ UNCHANGED NotEvents

\* app.dispatcher_events: GET /api/dispatcher/events?limit=<limit> answers
\* with recent(limit).
DispatcherEvents(limit) ==
    /\ response' = recent(events, limit)
    /\ UNCHANGED <<events, calls>>
    /\ UNCHANGED NotEvents

NextEvents ==
    \/ Emit
    \/ \E limit \in 0..MaxLimit : DispatcherEvents(limit)

SpecEvents == Init /\ [][NextEvents]_vars

\* ------------------------------------------------------------------ log stream
\* A .jsonl log and a websocket handler that reads it (ws_plan, ws_logs).
\* The text of the file is the sequence of the pieces written so far: a
\* whole line with its newline, or the head of a line, which has no newline
\* yet, followed by its tail; line k holds the k-th JSON object. Offsets
\* count pieces.
Pieces == [line : 1..MaxLines, part : {"whole", "head", "tail"}]

LinesBegun(text) == Cardinality({i \in DOMAIN text : text[i].part # "tail"})

EndsInsideALine(text) == text # <<>> /\ text[Len(text)].part = "head"

NotLog == <<registry, queue, slots, containers, life, gitlock, wt, branch,
            merged, claim, planGen, calls, candidates, first, response, ops,
            qops, events, mergeReq>>

\* The writer creates the file (open(plan_log, "w"), the shell redirection
\* of the worker).
WriterOpens ==
    /\ ~logfile.exists
    /\ logfile' = [exists |-> TRUE, text |-> <<>>]
    /\ UNCHANGED <<reader, NotLog>>

\* One write reaches the file: it ends at a line end or inside a line (the
\* buffers of the writer are flushed by size, not by line).
WriterAppends(part) ==
    /\ logfile.exists
    /\ (part = "tail") = EndsInsideALine(logfile.text)
    /\ part # "tail" => LinesBegun(logfile.text) < MaxLines
    /\ logfile' = [logfile EXCEPT !.text =
          Append(@, [line |-> IF part = "tail" THEN LinesBegun(@)
                              ELSE LinesBegun(@) + 1,
                     part |-> part])]
    /\ UNCHANGED <<reader, NotLog>>

\* f.readline() at offset pos: the text up to and including the next
\* newline, or up to the end of the file when no newline follows, and the
\* offset behind it; the empty text at the end of the file.
readline(text, pos) ==
    IF pos = Len(text) THEN [line |-> <<>>, pos |-> pos]
    ELSE IF text[pos + 1].part = "head" /\ pos + 2 <= Len(text)
         THEN [line |-> <<text[pos + 1], text[pos + 2]>>, pos |-> pos + 2]
         ELSE [line |-> <<text[pos + 1]>>, pos |-> pos + 1]

\* The try/except of both readers on one line read: json.loads accepts the
\* text of a whole JSON object, whose events _parse_event returns (one per
\* line here), and raises JSONDecodeError on a head or a tail of one, for
\* which the raw event is given.
parse_line(line) ==
    IF line[1].part # "tail" /\ line[Len(line)].part # "head"
    THEN <<[type |-> "parsed", line |-> line[1].line, part |-> "whole"]>>
    ELSE <<[type |-> "raw", line |-> line[1].line, part |-> line[1].part]>>

RECURSIVE read_lines(_, _)
read_lines(text, pos) ==
    IF readline(text, pos).line = <<>> THEN <<>>
    ELSE parse_line(readline(text, pos).line)
            \o read_lines(text, readline(text, pos).pos)

parse_log_file(file) ==
    IF ~file.exists THEN <<>> ELSE read_lines(file.text, 0)

\* The handler replays the file: existing = parse_log_file(plan_log).
Replay ==
    /\ reader.pc = "accepted"
    /\ reader' = [reader EXCEPT !.pc = "replayed",
                                !.existing = parse_log_file(logfile)]
    /\ UNCHANGED <<logfile, NotLog>>

\* tail_log starts after the events of the replay have been sent: it waits
\* for a file that does not exist, and opens one that does and seeks to
\* its end.
TailOpen ==
    /\ reader.pc \in {"replayed", "waiting"}
    /\ reader' = IF logfile.exists
                 THEN [reader EXCEPT !.pc = "tailing",
                                     !.pos = Len(logfile.text),
                                     !.start = Len(logfile.text)]
                 ELSE [reader EXCEPT !.pc = "waiting"]
    /\ UNCHANGED <<logfile, NotLog>>

\* The file has not appeared in 60 seconds: tail_log returns.
TailGivesUp ==
    /\ reader.pc = "waiting"
    /\ ~logfile.exists
    /\ reader' = [reader EXCEPT !.pc = "returned"]
    /\ UNCHANGED <<logfile, NotLog>>

\* One round of tail_log's loop that reads something.
TailRead ==
    /\ reader.pc = "tailing"
    /\ reader.pos < Len(logfile.text)
    /\ reader' = [reader EXCEPT
          !.pos = readline(logfile.text, reader.pos).pos,
          !.yielded = @ \o parse_line(readline(logfile.text, reader.pos).line)]
    /\ UNCHANGED <<logfile, NotLog>>

NextLog ==
    \/ WriterOpens
    \/ \E part \in {"whole", "head", "tail"} : WriterAppends(part)
    \/ Replay
    \/ TailOpen
    \/ TailGivesUp
    \/ TailRead

SpecLog == Init /\ [][NextLog]_vars

\* ------------------------------------------------------------------ claims
ActiveOnSlot(w) ==
    {t \in TaskIds : InQueue(queue, t) /\ queue[t].worker_id = w
                                      /\ queue[t].status \in ActiveStatuses}

GitOpsInProgress(p) ==
    {l \in LifeIds : life[l].pc \in GitPcs /\ Proj(l) = p}

ActiveLifecycles == {l \in LifeIds : life[l].pc # "free"}

ActiveTasks ==
    {t \in TaskIds : InQueue(queue, t) /\ queue[t].status \in ActiveStatuses}

\* C1: a claim_next call hands a task to a worker only when, under the
\* lock, the task still has the claimable status the call saw in its
\* snapshot; in the same step the task becomes claimed, gets the caller's
\* worker id and a started_at stamp.  A task already claimed by one call is
\* therefore never returned by a concurrent call.
C1_ClaimIsExclusive ==
    [][\A t \in TaskIds :
         (queue'[t].worker_id # queue[t].worker_id /\ queue'[t].worker_id # 0)
         => /\ queue[t].status \in {"pending", "plan_approved"}
            /\ queue'[t].status = "claimed"
            /\ queue'[t].started_at
            /\ \E c \in DOMAIN claim :
                  /\ claim[c].pc = "verify"
                  /\ claim'[c].pc = "idle"
                  /\ claim[c].best = t
                  /\ claim[c].status = queue[t].status
                  /\ claim[c].worker = queue'[t].worker_id]_vars

\* C1 witness: the CLI's call is between its snapshot and its re-check of a
\* task that the dispatcher's call has claimed in the meantime.
C1_Witness ==
    \E t \in TaskIds :
        /\ claim["cli"].pc = "verify"
        /\ claim["cli"].best = t
        /\ queue[t].status = "claimed"
        /\ queue[t].worker_id \in Slots

\* C2: a slot is busy iff exactly one task with that slot as worker_id is in
\* claimed, running, merging or testing.
C2_BusyIffOneActiveTask ==
    \A w \in Slots :
        slots[w].status = "busy" <=> Cardinality(ActiveOnSlot(w)) = 1

\* C3: a task with depends_on = D is never claimed while D is not completed.
C3_ClaimedOnlyAfterDependency ==
    \A t \in TaskIds :
        (InQueue(queue, t) /\ DependsOn(t) # 0 /\ queue[t].status = "claimed")
        => /\ InQueue(queue, DependsOn(t))
           /\ queue[DependsOn(t)].status = "completed"

\* C4: at most one git operation of the scheduler against a project's main
\* repository is in progress at any instant.
C4_OneGitOperationPerProject ==
    \A p \in Projects : Cardinality(GitOpsInProgress(p)) <= 1

\* C5: the status of a task in completed, cancelled or failed is changed by
\* nothing but an explicit retry call.
C5_TerminalLeftOnlyByRetry ==
    [][(\E t \in TaskIds :
           /\ InQueue(queue, t)
           /\ queue[t].status \in TerminalStatuses
           /\ queue'[t].status # queue[t].status)
       => \E t \in TaskIds : RetryTask(t)]_vars

\* C6: a cancel of a task in claimed, running, merging or testing leaves no
\* container of the task running and its slot idle, and while the task stays
\* cancelled the lifecycle (any step that is not a new request) neither
\* changes its status, nor starts a container for it, nor merges its branch.
C6_CancelStopsTheLifecycle ==
    [][\A t \in TaskIds :
         /\ (queue[t].status \in ActiveStatuses /\ queue'[t].status = "cancelled")
            => /\ \A w \in Slots : <<w, t>> \notin containers'
               /\ queue[t].worker_id \in Slots
                    => slots'[queue[t].worker_id].status = "idle"
         /\ (InQueue(queue, t) /\ queue[t].status = "cancelled" /\ calls' = calls)
            => /\ queue'[t].status = "cancelled"
               /\ \A w \in Slots : <<w, t>> \in containers' => <<w, t>> \in containers
               /\ t \in merged' => t \in merged]_vars

\* C7: completed_at is set iff the status is completed.
C7_CompletedAtIffCompleted ==
    \A t \in TaskIds :
        InQueue(queue, t) => (queue[t].completed_at <=> queue[t].status = "completed")

\* C8: a task in completed, failed or cancelled has no worker_id.
C8_TerminalHasNoWorker ==
    \A t \in TaskIds :
        (InQueue(queue, t) /\ queue[t].status \in TerminalStatuses)
        => queue[t].worker_id = 0

\* C9: a task in claimed, running, merging or testing has a worker_id.
C9_ActiveHasWorker ==
    \A t \in TaskIds :
        (InQueue(queue, t) /\ queue[t].status \in ActiveStatuses)
        => queue[t].worker_id # 0

\* C10: whenever a task is failed, no slot is busy with it and no
\* worktree created for it exists.
C10_FailedHoldsNothing ==
    \A t \in TaskIds :
        (InQueue(queue, t) /\ queue[t].status = "failed")
        => /\ \A w \in Slots : ~(slots[w].status = "busy" /\ slots[w].task = t)
           /\ \A k \in DOMAIN wt : wt[k] # t

\* C11: with N worker slots, neither the number of task lifecycles running
\* at once nor the number of tasks in claimed, running, merging or testing
\* ever exceeds N.
C11_AtMostNActive ==
    /\ Cardinality(ActiveLifecycles) <= NumWorkers
    /\ Cardinality(ActiveTasks) <= NumWorkers

\* The order the dispatcher is to follow: approved plans before pending
\* tasks, then the higher priority, then the earlier creation.
GoesBefore(a, b) ==
    \/ a.status = "plan_approved" /\ b.status = "pending"
    \/ a.status = b.status /\ a.priority > b.priority
    \/ a.status = b.status /\ a.priority = b.priority
          /\ a.created_at < b.created_at

NothingToRecover ==
    /\ recover_stale_tasks(queue) = queue
    /\ recovered(queue) = 0

C15_MergePendingKeepsBranch ==
    \A t \in TaskIds :
        (InQueue(queue, t) /\ queue[t].status = "merge_pending")
            => branch[t] # "none"

\* C16: a cancel request makes the task cancelled and is answered 200 when
\* the task is pending, plan_pending, plan_approved, failed, claimed,
\* running, merging or testing; in every other status (completed,
\* cancelled, merge_pending) it is answered 400 and the queue, the worker
\* slots and the containers stay as they were.
C16_CancelAcceptedExactlyWhenCancellable ==
    [][\A t \in TaskIds :
        CancelTask(t) =>
            IF queue[t].status \in
                  {"pending", "plan_pending", "plan_approved", "failed",
                   "claimed", "running", "merging", "testing"}
            THEN /\ response' = 200
                 /\ queue'[t].status = "cancelled"
            ELSE /\ response' = 400
                 /\ queue[t].status \in {"completed", "cancelled", "merge_pending"}
                 /\ UNCHANGED <<queue, slots, containers>>]_vars

\* The only task of the queue is merge_pending on a busy slot with its
\* container, and a cancel request was answered 400.
C16_Witness ==
    /\ response = 400
    /\ \E t \in TaskIds :
          /\ InQueue(queue, t)
          /\ queue[t].status = "merge_pending"
          /\ \A u \in TaskIds \ {t} : ~InQueue(queue, u)
          /\ \E w \in Slots :
                slots[w].status = "busy" /\ slots[w].task = t
                    /\ slots[w].cid \in containers

C18_PlanTaskClaimedOnlyWhenApproved ==
    [][\A t \in TaskIds :
        ( /\ InQueue(queue, t)
          /\ PlanMode(queue, t)
          /\ queue[t].status # "claimed"
          /\ queue'[t].status = "claimed" )
        => queue[t].status = "plan_approved"]_vars

\* C19: after a failed auto-merge (merge-and-test had succeeded, the project
\* merges automatically) the lifecycle sets the task merge_pending and never
\* failed, and ends with the branch as it was, nothing merged into the base
\* branch, the worktree of its slot removed and the slot idle.
C19_FailedAutoMergeEndsMergePending ==
    [][\A l \in LifeIds :
        LET t == life[l].task
            w == life[l].worker
        IN /\ LifeAutoMerged(l, FALSE) =>
                 /\ life'[l].pc = "rev_parse"
                 /\ UNCHANGED <<queue, merged, branch>>
           /\ (LifeRevParsed(l) /\ AutoMerge(Proj(l)) /\ InQueue(queue, t)) =>
                 /\ queue'[t].status = "merge_pending"
                 /\ life'[l].pc = "cleanup_keep"
                 /\ UNCHANGED <<merged, branch>>
           /\ (LifeCleanupKeep(l) /\ AutoMerge(Proj(l))) =>
                 /\ life'[l].pc = "free"
                 /\ UNCHANGED <<queue, merged, branch>>
                 /\ wt'[<<Proj(l), w>>] = 0
                 /\ slots'[w].status = "idle"]_vars

\* C20: when merge-and-test failed the lifecycle sets the task failed with
\* an error text and goes to its cleanup, not to the auto-merge; the cleanup
\* removes the worktree of the slot and the branch of the task, merges
\* nothing and leaves the slot idle.
C20_FailedMergeTestEndsFailed ==
    [][\A l \in LifeIds :
        LET t == life[l].task
            w == life[l].worker
        IN /\ (LifeMergeTested(l, FALSE) /\ InQueue(queue, t)) =>
                 /\ queue'[t].status = "failed"
                 /\ queue'[t].error = ErrorText("merge or test failed")
                 /\ life'[l].pc = "cleanup_locked"
                 /\ UNCHANGED merged
           /\ (life[l].pc = "cleanup_locked" /\ life'[l] # life[l]) =>
                 life'[l].pc = "free"
           /\ LifeCleanupLocked(l) =>
                 /\ UNCHANGED <<queue, merged>>
                 /\ wt'[<<Proj(l), w>>] = 0
                 /\ branch'[t] = "none"
                 /\ slots'[w].status = "idle"]_vars

\* C21: on the happy path of a project that merges automatically (the agent
\* committed and reported merging, merge-and-test succeeded) a successful
\* auto-merge makes the task completed with the new head of the base branch
\* as its commit_id, and the cleanup that follows deletes the branch of the
\* task, removes the worktree of the slot and leaves the slot idle.
C21_HappyPathEndsCompleted ==
    [][\A l \in LifeIds :
        LET t == life[l].task
            w == life[l].worker
        IN /\ (LifeAutoMerged(l, TRUE) /\ InQueue(queue, t)) =>
                 /\ queue'[t].status = "completed"
                 /\ queue'[t].commit_id = "merged"
                 /\ t \in merged'
                 /\ life'[l].pc = "cleanup_completed"
           /\ (life[l].pc = "cleanup_completed" /\ life'[l] # life[l]) =>
                 life'[l].pc = "free"
           /\ LifeCleanupCompleted(l) =>
                 /\ UNCHANGED <<queue, merged>>
                 /\ wt'[<<Proj(l), w>>] = 0
                 /\ branch'[t] = "none"
                 /\ slots'[w].status = "idle"]_vars

\* The agent made no commit on the branch checked out in the worktree of
\* lifecycle l.
NothingCommitted(l) ==
    /\ wt[<<Proj(l), life[l].worker>>] # 0
    /\ branch[wt[<<Proj(l), life[l].worker>>]] \in {"base", "upstream", "detached"}

\* C22: when the agent made no commit on the task branch, the check of the
\* branch against the base sets the task failed with its "no new commits"
\* error and sends the lifecycle to the cleanup that deletes the branch and
\* removes the worktree, never on to merge-and-test, whichever ref the
\* branch was created from and also when origin/<base> is ahead of <base>.
C22_NoCommitEndsFailed ==
    [][\A l \in LifeIds :
        (LifeVerifyDiff(l) /\ NothingCommitted(l) /\ InQueue(queue, life[l].task)) =>
            /\ queue'[life[l].task].status = "failed"
            /\ queue'[life[l].task].error =
                   ErrorText("worker produced no new commits on branch")
            /\ life'[l].pc = "cleanup_fail"]_vars

\* What the lifecycle l is to do when its wait for the container returned
\* exit_code and the task is still in the queue.
Reconciled(l, exit_code) ==
    LET t == life[l].task
    IN InQueue(queue, t) =>
          IF queue[t].status = "failed"
          THEN /\ life'[l].pc = "cleanup_fail"
               /\ UNCHANGED queue
          ELSE IF queue[t].status # "merging" /\ exit_code # 0
          THEN /\ life'[l].pc = "cleanup_fail"
               /\ queue'[t].status = "failed"
               /\ queue'[t].error = ErrorText("container exit")
          ELSE /\ life'[l].pc = "verify_commit"
               /\ UNCHANGED queue

C24_WritesLoseNothing ==
    [][\A t \in TaskIds :
        (InQueue(queue, t) /\ ~InQueue(queue', t)) => DeleteTask(t)]_vars

\* An operation that is waiting for a lock some operation holds.
Waiting(o) ==
    /\ ops[o].prog # <<>>
    /\ Head(ops[o].prog).do = "acquire"
    /\ Holder(Head(ops[o].prog).lock) # {}

\* C25: no operation asks for the registry lock while it holds the lock of
\* a project's queue, and the running operations are never all waiting for
\* locks that waiting operations hold: some operation can always take its
\* next step without any timeout having to expire.
C25_LockOrderRegistryFirst ==
    /\ \A o \in OpIds :
          (ops[o].prog # <<>> /\ Head(ops[o].prog) = Acquire(0, FALSE))
              => ops[o].holds \cap Projects = {}
    /\ (\E o \in OpIds : ops[o].prog # <<>>)
          => \E o \in OpIds : ops[o].prog # <<>> /\ ~Waiting(o)

\* One operation holds the registry lock and another the lock of a queue
\* while a third, a claim_next in its scan, waits for that queue's lock.
C25_Witness ==
    \E a, b, c \in OpIds :
        /\ 0 \in ops[a].holds
        /\ ops[b].holds \cap Projects # {}
        /\ Waiting(c)
        /\ Head(ops[c].prog).caught
        /\ Head(ops[c].prog).lock \in ops[b].holds

\* The slots a lifecycle is using: it was spawned for the slot and has not
\* ended.
SlotsInUse == {life[l].worker : l \in {k \in LifeIds : life[k].pc # "free"}}

\* A step of one of the handlers list_tasks, list_workers, cancel_task and
\* restart_worker.
SlotHandler ==
    \/ \E p \in Projects : ListTasks(p)
    \/ ListWorkers
    \/ \E t \in TaskIds : CancelTask(t)
    \/ \E w \in Slots : RestartWorker(w)

\* C26: no handler of the API (task listing, worker listing, cancel, worker
\* restart) changes the status, the container or the task of a slot that a
\* lifecycle is using.
C26_SlotsWrittenBySchedulerOnly ==
    [][SlotHandler => \A w \in SlotsInUse : slots'[w] = slots[w]]_vars

\* C27: when a git subprocess of a lifecycle exceeds its timeout, the task
\* of the lifecycle is failed with an error text and the slot of the
\* lifecycle is idle once the lifecycle has ended.
C27_TimeoutEndsFailedAndIdle ==
    [][\A l \in LifeIds :
        LifeRaise(l) =>
            /\ queue'[life[l].task].status = "failed"
            /\ queue'[life[l].task].error # Null
            /\ slots'[life[l].worker].status = "idle"]_vars

\* C28: a claim_next call picks its task among the claimable tasks of the
\* projects that are ready when it takes its snapshot; a task becomes
\* claimed only as the task a snapshot picked; and with no ready project
\* or no claimable task a call returns none: no task is claimed, no
\* snapshot is kept and no lifecycle is spawned.
C28_ClaimsOnlyInReadyProjects ==
    [][/\ \A c \in {"disp", "cli"} :
            (claim[c].pc = "idle" /\ claim'[c].pc = "verify") =>
                /\ registry[ProjectOf(claim'[c].best)] = "ready"
                /\ Claimable(queue, claim'[c].best)
       /\ \A t \in TaskIds :
            (InQueue(queue', t) /\ queue'[t].status = "claimed"
                /\ queue[t].status # "claimed") =>
                \E c \in {"disp", "cli"} :
                    /\ claim[c].pc = "verify"
                    /\ claim[c].best = t
                    /\ claim'[c].pc = "idle"
       /\ (/\ \A c \in {"disp", "cli"} : claim[c].pc = "idle"
           /\ \A t \in TaskIds :
                ~(registry[ProjectOf(t)] = "ready" /\ Claimable(queue, t))) =>
                /\ claim' = claim
                /\ \A l \in LifeIds : life[l].pc = "free" => life'[l].pc = "free"
                /\ \A t \in TaskIds :
                      queue'[t].status = "claimed" => queue[t].status = "claimed"
      ]_vars

\* A claim_next call between its snapshot and its write, for a task whose
\* project has left the ready status since the snapshot.
C28_Witness ==
    \E c \in {"disp", "cli"} :
        /\ claim[c].pc = "verify"
        /\ InQueue(queue, claim[c].best)
        /\ registry[ProjectOf(claim[c].best)] # "ready"

\* C29: when the task a claim_next call picked has another status than in
\* the snapshot, or is no longer in its queue, at the re-verification under
\* the project's lock, the call ends with no task of any project changed
\* and no lifecycle spawned; it does not go on to another candidate.
C29_FailedReverificationClaimsNothing ==
    [][\A c \in {"disp", "cli"} :
        (/\ claim[c].pc = "verify"
         /\ claim'[c].pc = "idle"
         /\ ~Restart
         /\ ~StillAsSeen(queue, claim[c])) =>
            /\ queue' = queue
            /\ life' = life]_vars

\* A call about to re-verify a task whose status has changed since the
\* snapshot, while the queue holds a task that a new scan would pick.
C29_Witness ==
    \E c \in {"disp", "cli"} :
        /\ claim[c].pc = "verify"
        /\ InQueue(queue, claim[c].best)
        /\ queue[claim[c].best].status # claim[c].status
        /\ all_candidates(registry, queue) # {}

\* What a callback for task t with a valid status writes, apart from
\* completed_at: the status, those of branch, commit and error that the
\* body carries, and nothing else in any task.
PartialUpdate(t, status, br, commit, error) ==
    /\ queue'[t].status = status
    /\ queue'[t].branch = IF br # Null THEN br ELSE queue[t].branch
    /\ queue'[t].commit_id = IF commit # Null THEN commit ELSE queue[t].commit_id
    /\ queue'[t].error = IF error # Null THEN error ELSE queue[t].error
    /\ queue'[t].exists = queue[t].exists
    /\ queue'[t].worker_id = queue[t].worker_id
    /\ queue'[t].started_at = queue[t].started_at
    /\ queue'[t].plan_mode = queue[t].plan_mode
    /\ \A u \in TaskIds \ {t} : queue'[u] = queue[u]

\* How a callback is answered for a body outside the enum or a task the
\* queue does not hold, and what it writes for a valid status of a known
\* task, with completed_at kept or stamped along with status completed.
CallbackAnswers(t, status, br, commit, error, completed_at_kept) ==
    IF status \notin TaskStatus
    THEN response' = 400 /\ queue' = queue
    ELSE IF ~InQueue(queue, t)
    THEN response' = 404 /\ queue' = queue
    ELSE /\ response' = 200
         /\ PartialUpdate(t, status, br, commit, error)
         /\ queue'[t].completed_at =
                IF completed_at_kept THEN queue[t].completed_at
                ELSE (status = "completed" \/ queue[t].completed_at)

\* C30 as stated: the status callback answers a status outside the enum
\* with an error and an unknown task with not-found, both with the queue
\* unchanged, and for a valid status of a known task sets the status and
\* those of branch, commit and error the body carries, every other field of
\* the task, completed_at included, staying as it was.
C30_CallbackUpdatesOnlyWhatIsGiven ==
    [][\A t \in TaskIds, status \in BodyStatuses, br \in BodyBranches,
          commit \in BodyCommits, error \in BodyErrors :
        internal_update_status(t, status, br, commit, error) =>
            CallbackAnswers(t, status, br, commit, error, TRUE)]_vars

\* C30 amended: the same, except that a callback with status completed
\* also stamps completed_at.
C30_CallbackUpdatesGivenAndCompletedAt ==
    [][\A t \in TaskIds, status \in BodyStatuses, br \in BodyBranches,
          commit \in BodyCommits, error \in BodyErrors :
        internal_update_status(t, status, br, commit, error) =>
            CallbackAnswers(t, status, br, commit, error, FALSE)]_vars

\* A callback was applied that left an earlier error text in place: the
\* task is merging with its branch recorded and still carries the error.
C30_Witness ==
    /\ response = 200
    /\ \E t \in TaskIds :
          /\ InQueue(queue, t)
          /\ queue[t].status = "merging"
          /\ queue[t].branch # Null
          /\ queue[t].commit_id = Null
          /\ queue[t].error # Null

LastOf(evs, k) == SubSeq(evs, Len(evs) - k + 1, Len(evs))

\* The smaller of two numbers.
Least(a, b) == IF a < b THEN a ELSE b

\* C32: after n emit calls the event log holds the most recent min(n, 200)
\* records in the order of emission, never more than 200, and recent(limit)
\* is the last min(limit, size) of them for every limit >= 0.
C32_EventLogKeepsLast200 ==
    /\ Len(events) <= maxlen
    /\ events = [i \in 1..Least(calls, maxlen) |-> calls - Least(calls, maxlen) + i]
    /\ \A limit \in 0..MaxLimit :
          recent(events, limit) = LastOf(events, Least(limit, Len(events)))

\* C33: a slot is handed to a new task only after the lifecycle spawned on
\* it before has ended: no two lifecycles in progress have the same slot,
\* and so none shares its worktree path with another.
C33_OneLifecyclePerSlot ==
    \A l1, l2 \in LifeIds :
        (l1 # l2 /\ life[l1].pc # "free" /\ life[l2].pc # "free") =>
            life[l1].worker # life[l2].worker

\* C34: a lifecycle that ends, by returning or by an exception, leaves its
\* slot idle and its task in a status that is not active (not claimed,
\* running, merging or testing).
C34_LifecycleEndsIdleAndInactive ==
    [][\A l \in LifeIds :
        (life[l].pc # "free" /\ life'[l].pc = "free") =>
            /\ slots'[life[l].worker].status = "idle"
            /\ queue'[life[l].task].status \notin ActiveStatuses]_vars

\* C35: while a slot is idle no container launched for it is running.
C35_IdleSlotHasNoContainer ==
    \A w \in Slots :
        slots[w].status = "idle" =>
            \A t \in TaskIds : <<w, t>> \notin containers

\* C36: a task's branch is merged into the base branch only by the
\* auto-merge of a lifecycle of that task that has passed merge-and-test, or
\* by the merge endpoint for a task that is merge_pending at that moment;
\* the endpoint makes a task completed only together with the merge, and
\* its rejections (400, 404) and failures (500) leave the queue unchanged.
C36_MergedOnlyAfterTestOrFromMergePending ==
    [][/\ \A t \in TaskIds :
            (t \notin merged /\ t \in merged') =>
                \/ \E l \in LifeIds :
                      life[l].pc = "auto_merge" /\ life[l].task = t
                \/ /\ mergeReq[ProjectOf(t)] = t
                   /\ InQueue(queue, t)
                   /\ queue[t].status = "merge_pending"
       /\ (response' \in {400, 404, 500} /\ response' # response) =>
                queue' = queue /\ merged' = merged
      ]_vars

\* C37: a start of the manager leaves, in every project with a repo
\* directory, no worktree under worktrees/ and no claude/* branch, also when
\* the project's task-queue lock could not be acquired.
C37_RecoveryCleansEveryProject ==
    [][calls' # calls =>
          \A p \in Projects : registry[p] # "absent" =>
              /\ \A w \in Slots : wt'[<<p, w>>] = 0
              /\ \A t \in TaskIds : ProjectOf(t) = p => branch'[t] = "none"]_vars

\* C38: among the candidates equal in status tier, priority and creation
\* time to the one claim_next takes, the one taken has the smallest task id.
C38_TiesGoToTheSmallestId ==
    first # <<>> =>
        \A i \in DOMAIN candidates :
            sort_key(candidates[i]) = sort_key(first[1])
                => first[1].id <= candidates[i].id

\* The events tail_log has yielded that are of type ty and come from line k.
YieldedOf(ty, k) ==
    {j \in DOMAIN reader.yielded :
        reader.yielded[j].type = ty /\ reader.yielded[j].line = k}

\* C39: for a line whose head the writer appended while tail_log was
\* reading, tail_log yields no raw event, and once it has read the whole
\* line it has yielded the line's events once.
C39_TailYieldsCompleteLinesOnly ==
    reader.pc = "tailing" =>
        \A i \in (reader.start + 1)..reader.pos :
            logfile.text[i].part = "head" =>
                /\ YieldedOf("raw", logfile.text[i].line) = {}
                /\ i < reader.pos =>
                      Cardinality(YieldedOf("parsed", logfile.text[i].line)) = 1

\* The writer has written whole lines only.
WholeLinesOnly ==
    \A i \in DOMAIN logfile.text : logfile.text[i].part = "whole"

\* C40: a handler that has replayed the file and has tailed it to its end
\* has received the events of every line once and in file order (stated
\* for files of whole lines).
C40_ReplayThenTailDeliversEveryLineOnce ==
    (reader.pc = "tailing" /\ reader.pos = Len(logfile.text) /\ WholeLinesOnly)
        => reader.existing \o reader.yielded =
              [k \in 1..Len(logfile.text) |->
                  [type |-> "parsed", line |-> k, part |-> "whole"]]

====
